---------------------------- MODULE Spec2Model ----------------------------
(***************************************************************************)
(* Expense tracker backend: the payment-method store, the category store,  *)
(* the expense ledger and the summary aggregator, as state machines over   *)
(* the database tables and the cache.                                      *)
(*                                                                         *)
(* Every service method is a small program: each `await` on the database,  *)
(* the cache or the object storage is one step (one value of pc).  A       *)
(* request in flight is a record                                           *)
(*     [op, userId, arg, pc, loc, result, value]                           *)
(* and the operator of a method, applied to (p, S), executes the step at   *)
(* p.pc on the shared state S, giving the next request record and the      *)
(* next shared state.                                                      *)
(* Spec runs every request to completion before the next one starts; the   *)
(* Conc specifications interleave the steps of the requests in flight.     *)
(*                                                                         *)
(* Money is counted in cents (the columns are decimal(15,2)).              *)
(***************************************************************************)
EXTENDS Integers, FiniteSets, Sequences, TLC

VARIABLES
    paymentMethods,  \* table payment_methods: id -> row
    categories,      \* table categories: id -> row
    expenses,        \* table expenses: id -> row
    cache,           \* the cache collaborator: key -> value
    seq,             \* ids generated so far, per table
    lastCall,        \* Spec: the request served last and its response
    calls,           \* number of requests started
    procs            \* interleaved specifications: the requests started, in order

vars == <<paymentMethods, categories, expenses, cache, seq, lastCall, calls, procs>>

(***************************************************************************)
(* Bounds of the model.                                                    *)
(***************************************************************************)
MaxCalls == 2

Users == {"u1", "u2"}
PmNames == {"Cash", "Card"}
BalanceInputs == {10}
AmountInputs == {1, 2}

(***************************************************************************)
(* The shared state as one record, and generic helpers.                    *)
(***************************************************************************)
DB == [paymentMethods |-> paymentMethods, categories |-> categories,
       expenses |-> expenses, cache |-> cache, seq |-> seq]

EmptyTable == [id \in {} |-> [id |-> id]]

\* A DTO field that may be absent: the empty record, or the field with a value.
Opt(k, vals) == {<<>>} \cup {k :> v : v \in vals}

Has(d, k) == k \in DOMAIN d

\* Object.assign(entity, dto): the dto's fields override the entity's.
ObjectAssign(entity, dto) == dto @@ entity

\* repository.save(entity): insert the row, or overwrite the stored one.
Upsert(table, e) ==
    [k \in DOMAIN table \cup {e.id} |-> IF k = e.id THEN e ELSE table[k]]

\* repository.remove(entity): delete the row with the entity's id.
Delete(table, id) == [k \in DOMAIN table \ {id} |-> table[k]]

\* cacheManager.del(key)
CacheDel(c, key) == [k \in DOMAIN c \ {key} |-> c[k]]

\* cacheManager.set(key, value, ttl)
CacheSet(c, key, v) == [k \in DOMAIN c \cup {key} |-> IF k = key THEN v ELSE c[k]]

\* The cache store cannot be reached while the request is served: every
\* cacheManager call of the request fails.
CacheDown(p) == Has(p.arg, "cacheDown") /\ p.arg.cacheDown

\* cacheManager.get(key) while the store cannot be reached: the promise is
\* rejected, or the failure is swallowed and the answer is undefined,
\* depending on the cache-manager release the build resolves.
CacheGetRejects(p) == CacheDown(p) /\ p.arg.getRejects

\* The steps that are one awaited cacheManager.del or cacheManager.set.
CacheWritePcs ==
    {"cacheDel", "cacheDel1", "cacheDel2", "cacheSet", "cacheSet2", "invalidate"}

RECURSIVE SumOver(_, _)
\* The sum of f[x] over the finite set s.
SumOver(f, s) ==
    IF s = {} THEN 0
    ELSE LET x == CHOOSE y \in s : TRUE IN f[x] + SumOver(f, s \ {x})

(***************************************************************************)
(* Control flow of a request.                                              *)
(***************************************************************************)
NewProc(req) ==
    [op |-> req.op, userId |-> req.userId, arg |-> req.arg,
     pc |-> "start", loc |-> <<>>, result |-> "pending", value |-> <<>>]

Goto(p, S, pc) == [p |-> [p EXCEPT !.pc = pc], S |-> S]

GotoWith(p, S, pc, loc) == [p |-> [p EXCEPT !.pc = pc, !.loc = loc @@ p.loc], S |-> S]

Throw(p, S, err) == [p |-> [p EXCEPT !.pc = "done", !.result = err], S |-> S]

Return(p, S, v) == [p |-> [p EXCEPT !.pc = "done", !.result = "ok", !.value = v], S |-> S]

(***************************************************************************)
(* PaymentMethodsService                                                   *)
(***************************************************************************)

\* Column defaults of the payment_methods table.
PaymentMethodDefaults == [balance |-> 0, isActive |-> TRUE, isDefault |-> FALSE]

\* A faulty findOne that does not filter on the owner.
PaymentMethods_findOne_anyOwner(S, userId, id) ==
    {S.paymentMethods[i] : i \in {j \in DOMAIN S.paymentMethods : j = id}}

\* findOne({ where: { id, userId } }): the matching rows (none or one).
PaymentMethods_findOne(S, userId, id) ==
    {S.paymentMethods[i] : i \in {j \in DOMAIN S.paymentMethods :
                                     j = id /\ S.paymentMethods[j].userId = userId}}

\* A faulty lookup by name that finds nothing.
PaymentMethods_findByName_none(S, userId, name) == {}

\* findOne({ where: { name, userId } })
PaymentMethods_findByName(S, userId, name) ==
    {S.paymentMethods[i] : i \in {j \in DOMAIN S.paymentMethods :
        S.paymentMethods[j].name = name /\ S.paymentMethods[j].userId = userId}}

\* A faulty clearing of the default that clears nothing.
PaymentMethods_clearDefault_nothing(table, userId) == table

\* A faulty clearing of the default that clears the default of every owner.
PaymentMethods_clearDefault_everyOwner(table, userId) ==
    [i \in DOMAIN table |->
        IF table[i].isDefault THEN [table[i] EXCEPT !.isDefault = FALSE] ELSE table[i]]

\* update({ userId, isDefault: true }, { isDefault: false })
PaymentMethods_clearDefault(table, userId) ==
    [i \in DOMAIN table |->
        IF table[i].userId = userId /\ table[i].isDefault
        THEN [table[i] EXCEPT !.isDefault = FALSE] ELSE table[i]]

\* The unique index (userId, name): would storing row e break it?
PaymentMethods_uniqueViolation(table, e) ==
    \E i \in DOMAIN table :
        i # e.id /\ table[i].userId = e.userId /\ table[i].name = e.name

\* createQueryBuilder('pm').leftJoin('pm.expenses', 'expense')
\*   .where('pm.id = :id').getCount(): the number of distinct payment methods
\* in the join; the left join keeps the method whether or not an expense
\* matches it.
PaymentMethods_countWithExpenses(S, id) ==
    Cardinality({i \in DOMAIN S.paymentMethods : i = id})

PaymentMethods_create(p, S) ==
    LET dto == p.arg.dto
        u == p.userId
    IN CASE p.pc = "start" ->
              IF PaymentMethods_findByName(S, u, dto.name) # {}
              THEN Throw(p, S, "Conflict")
              ELSE Goto(p, S, IF Has(dto, "isDefault") /\ dto.isDefault
                              THEN "clearDefault" ELSE "save")
         [] p.pc = "clearDefault" ->
              Goto(p, [S EXCEPT !.paymentMethods = PaymentMethods_clearDefault(@, u)],
                   "save")
         [] p.pc = "save" ->
              LET id == S.seq.paymentMethods + 1
                  row == ObjectAssign(PaymentMethodDefaults,
                                      dto @@ [id |-> id, userId |-> u])
              IN IF PaymentMethods_uniqueViolation(S.paymentMethods, row)
                 THEN Throw(p, S, "DbError")
                 ELSE GotoWith(p, [S EXCEPT !.paymentMethods = Upsert(@, row),
                                            !.seq.paymentMethods = id],
                               "cacheDel", [saved |-> row])
         [] p.pc = "cacheDel" ->
              Return(p, [S EXCEPT !.cache = CacheDel(@, <<"payment-methods", u>>)],
                     p.loc.saved)

PaymentMethods_update(p, S) ==
    LET dto == p.arg.dto
        u == p.userId
        afterName == IF Has(dto, "isDefault") /\ dto.isDefault
                     THEN "clearDefault" ELSE "save"
    IN CASE p.pc = "start" ->
              LET found == PaymentMethods_findOne(S, u, p.arg.id)
              IN IF found = {} THEN Throw(p, S, "NotFound")
                 ELSE LET e == CHOOSE r \in found : TRUE
                      IN GotoWith(p, S,
                                  IF Has(dto, "name") /\ dto.name # e.name
                                  THEN "findByName" ELSE afterName,
                                  [entity |-> e])
         [] p.pc = "findByName" ->
              IF PaymentMethods_findByName(S, u, dto.name) # {}
              THEN Throw(p, S, "Conflict")
              ELSE Goto(p, S, afterName)
         [] p.pc = "clearDefault" ->
              Goto(p, [S EXCEPT !.paymentMethods = PaymentMethods_clearDefault(@, u)],
                   "save")
         [] p.pc = "save" ->
              LET e == ObjectAssign(p.loc.entity, dto)
              IN IF PaymentMethods_uniqueViolation(S.paymentMethods, e)
                 THEN Throw(p, S, "DbError")
                 ELSE GotoWith(p, [S EXCEPT !.paymentMethods = Upsert(@, e)],
                               "cacheDel1", [entity |-> e])
         [] p.pc = "cacheDel1" ->
              Goto(p, [S EXCEPT !.cache = CacheDel(@, <<"payment-methods", u, TRUE>>)],
                   "cacheDel2")
         [] p.pc = "cacheDel2" ->
              Return(p, [S EXCEPT !.cache = CacheDel(@, <<"payment-methods", u, FALSE>>)],
                     p.loc.entity)

PaymentMethods_remove(p, S) ==
    LET u == p.userId
    IN CASE p.pc = "start" ->
              LET found == PaymentMethods_findOne(S, u, p.arg.id)
              IN IF found = {} THEN Throw(p, S, "NotFound")
                 ELSE GotoWith(p, S, "count", [entity |-> CHOOSE r \in found : TRUE])
         [] p.pc = "count" ->
              IF PaymentMethods_countWithExpenses(S, p.arg.id) > 0
              THEN Throw(p, S, "BadRequest")
              ELSE Goto(p, S, "remove")
         [] p.pc = "remove" ->
              \* the foreign key expenses.paymentMethodId refuses the delete
              \* of a referenced row
              IF \E e \in DOMAIN S.expenses :
                     S.expenses[e].paymentMethodId = p.loc.entity.id
              THEN Throw(p, S, "DbError")
              ELSE Goto(p, [S EXCEPT !.paymentMethods = Delete(@, p.loc.entity.id)],
                        "cacheDel1")
         [] p.pc = "cacheDel1" ->
              Goto(p, [S EXCEPT !.cache = CacheDel(@, <<"payment-methods", u, TRUE>>)],
                   "cacheDel2")
         [] p.pc = "cacheDel2" ->
              Return(p, [S EXCEPT !.cache = CacheDel(@, <<"payment-methods", u, FALSE>>)],
                     <<>>)

PaymentMethods_setDefault(p, S) ==
    LET u == p.userId
    IN CASE p.pc = "start" ->
              LET found == PaymentMethods_findOne(S, u, p.arg.id)
              IN IF found = {} THEN Throw(p, S, "NotFound")
                 ELSE GotoWith(p, S, "clearDefault",
                               [entity |-> CHOOSE r \in found : TRUE])
         [] p.pc = "clearDefault" ->
              Goto(p, [S EXCEPT !.paymentMethods = PaymentMethods_clearDefault(@, u)],
                   "save")
         [] p.pc = "save" ->
              LET e == [p.loc.entity EXCEPT !.isDefault = TRUE]
              IN GotoWith(p, [S EXCEPT !.paymentMethods = Upsert(@, e)],
                          "cacheDel1", [entity |-> e])
         [] p.pc = "cacheDel1" ->
              Goto(p, [S EXCEPT !.cache = CacheDel(@, <<"payment-methods", u, TRUE>>)],
                   "cacheDel2")
         [] p.pc = "cacheDel2" ->
              Return(p, [S EXCEPT !.cache = CacheDel(@, <<"payment-methods", u, FALSE>>)],
                     p.loc.entity)

\* The rank of a name in the ascending order of names.
NameRank(name) == CASE name = "Card" -> 1 [] name = "Cash" -> 2 [] OTHER -> 3

\* order: { isDefault: 'DESC', name: 'ASC' }: row a comes before row b.
PaymentMethods_before(a, b) ==
    \/ a.isDefault /\ ~b.isDefault
    \/ a.isDefault = b.isDefault /\ NameRank(a.name) < NameRank(b.name)

RECURSIVE PaymentMethods_ordered(_)
\* The rows of a set in that order (rows that tie come in either order).
PaymentMethods_ordered(rows) ==
    IF rows = {} THEN <<>>
    ELSE LET first == CHOOSE a \in rows : \A b \in rows : ~PaymentMethods_before(b, a)
         IN <<first>> \o PaymentMethods_ordered(rows \ {first})

\* find({ where: { userId [, isActive: true] }, order })
PaymentMethods_find(S, userId, includeInactive) ==
    PaymentMethods_ordered(
        {S.paymentMethods[i] : i \in {j \in DOMAIN S.paymentMethods :
            /\ S.paymentMethods[j].userId = userId
            /\ includeInactive \/ S.paymentMethods[j].isActive}})

PaymentMethods_findAll(p, S) ==
    LET u == p.userId
        cacheKey == <<"payment-methods", u, p.arg.includeInactive>>
    IN CASE p.pc = "start" ->
              IF CacheGetRejects(p) THEN Throw(p, S, "CacheError")
              ELSE IF ~CacheDown(p) /\ cacheKey \in DOMAIN S.cache
              THEN Return(p, S, S.cache[cacheKey])
              ELSE Goto(p, S, "find")
         [] p.pc = "find" ->
              GotoWith(p, S, "cacheSet",
                       [paymentMethods |-> PaymentMethods_find(S, u, p.arg.includeInactive)])
         [] p.pc = "cacheSet" ->
              Return(p, [S EXCEPT !.cache = CacheSet(@, cacheKey, p.loc.paymentMethods)],
                     p.loc.paymentMethods)

\* JavaScript values findAllWithStats computes with: null, a number, and the
\* text the postgres driver hands back for a decimal column (the value with
\* two decimals, as in '0.00'), kept here as the value it spells.
JsNull == [kind |-> "null"]

JsNumber(n) == [kind |-> "number", num |-> n]

DecimalText(n) == [kind |-> "string", num |-> n]

\* A faulty truth test that takes the text of a decimal for its number.
Truthy_asNumber(v) == v.kind # "null" /\ v.num # 0

\* The truth of a value in a condition: null and 0 are false, a number other
\* than 0 is true, and so is a text that is not empty (the text of a decimal
\* never is).
Truthy(v) ==
    CASE v.kind = "null" -> FALSE
      [] v.kind = "number" -> v.num # 0
      [] v.kind = "string" -> TRUE

\* The column creditLimit of a row as the entity carries it: null when the
\* row has none.
PaymentMethods_creditLimit(row) ==
    IF Has(row, "creditLimit") THEN DecimalText(row.creditLimit) ELSE JsNull

\* COUNT(expense.id) of the group of payment method id.
PaymentMethods_totalExpenses(S, id) ==
    Cardinality({e \in DOMAIN S.expenses : S.expenses[e].paymentMethodId = id})

\* COALESCE(SUM(expense.amount), 0) of the group of payment method id.
PaymentMethods_totalAmount(S, id) ==
    SumOver([e \in DOMAIN S.expenses |-> S.expenses[e].amount],
            {e \in DOMAIN S.expenses : S.expenses[e].paymentMethodId = id})

\* The entry findAllWithStats maps an entity to.
PaymentMethods_withStats(S, entity) ==
    LET totalAmount == PaymentMethods_totalAmount(S, entity.id)
        creditLimit == PaymentMethods_creditLimit(entity)
        availableCredit ==
            IF entity.type = "credit_card" /\ Truthy(creditLimit)
            THEN JsNumber(creditLimit.num - totalAmount)
            ELSE JsNull
    IN [entity |-> entity,
        totalExpenses |-> PaymentMethods_totalExpenses(S, entity.id),
        totalAmount |-> totalAmount,
        availableCredit |-> availableCredit]

\* findAllWithStats(userId): the owner's methods, default first and then by
\* name, each with its statistics.
PaymentMethods_findAllWithStats(p, S) ==
    LET entities == PaymentMethods_find(S, p.userId, TRUE)
    IN Return(p, S, [k \in DOMAIN entities |-> PaymentMethods_withStats(S, entities[k])])

\* A faulty balance arithmetic that credits whatever the operation.
PaymentMethods_newBalance_creditOnly(balance, amount, operation) == balance + amount

\* A faulty balance arithmetic that debits whatever the operation.
PaymentMethods_newBalance_debitOnly(balance, amount, operation) == balance - amount

\* updateBalance's arithmetic on the loaded entity.
PaymentMethods_newBalance(balance, amount, operation) ==
    IF operation = "add" THEN balance + amount ELSE balance - amount

\* updateBalance(userId, id, amount, operation), called inside a ledger
\* method: findOne at pc = pcFind, save at pc = pcSave, then on to pcNext.
PaymentMethods_updateBalance(p, S, id, amount, operation, pcFind, pcSave, pcNext) ==
    IF p.pc = pcFind
    THEN LET found == PaymentMethods_findOne(S, p.userId, id)
         IN IF found = {} THEN Throw(p, S, "NotFound")
            ELSE GotoWith(p, S, pcSave, [paymentMethod |-> CHOOSE r \in found : TRUE])
    ELSE LET e == [p.loc.paymentMethod EXCEPT
                      !.balance = PaymentMethods_newBalance(@, amount, operation)]
         IN Goto(p, [S EXCEPT !.paymentMethods = Upsert(@, e)], pcNext)

(***************************************************************************)
(* CategoriesService                                                       *)
(***************************************************************************)

\* userId of a system category (the column is null).
NoUser == "null"

\* Column defaults of the categories table.
CategoryDefaults == [isSystem |-> FALSE, orderIndex |-> 0]

\* The catalog of createDefaultCategories, in its order.
defaultCategories ==
    <<"Comida", "Transporte", "Entretenimiento", "Compras",
      "Salud", "Educacion", "Servicios", "Otros">>   \* "Educacion": 'Educación'

\* The Category entity declares no `expenses` relation (it is commented out).
Category_hasExpensesRelation == FALSE

\* A faulty findOne that does not filter on the owner.
Categories_findOne_anyOwner(S, userId, id) ==
    {S.categories[i] : i \in {j \in DOMAIN S.categories : j = id}}

\* findOne({ where: [{ id, userId }, { id, isSystem: true }] })
Categories_findOne(S, userId, id) ==
    {S.categories[i] : i \in {j \in DOMAIN S.categories :
        j = id /\ (S.categories[j].userId = userId \/ S.categories[j].isSystem)}}

\* A faulty lookup by name that finds nothing.
Categories_findByName_none(S, userId, name) == {}

\* findOne({ where: { name, userId } })
Categories_findByName(S, userId, name) ==
    {S.categories[i] : i \in {j \in DOMAIN S.categories :
        S.categories[j].name = name /\ S.categories[j].userId = userId}}

\* A faulty lookup of a system category that finds nothing.
Categories_findSystemByName_none(table, name) == {}

\* findOne({ where: { name, isSystem: true } })
Categories_findSystemByName(table, name) ==
    {table[i] : i \in {j \in DOMAIN table : table[j].name = name /\ table[j].isSystem}}

\* The unique index (userId, name); rows with a null userId never collide.
Categories_uniqueViolation(table, e) ==
    \E i \in DOMAIN table :
        /\ i # e.id
        /\ e.userId # NoUser
        /\ table[i].userId = e.userId
        /\ table[i].name = e.name

\* createQueryBuilder('category').leftJoin('category.expenses', 'expense')
\*   .where('category.id = :id').getCount(): the number of distinct categories
\* in the join.
Categories_countWithExpenses(S, id) ==
    Cardinality({i \in DOMAIN S.categories : i = id})

Categories_create(p, S) ==
    LET dto == p.arg.dto
        u == p.userId
    IN CASE p.pc = "start" ->
              IF Categories_findByName(S, u, dto.name) # {}
              THEN Throw(p, S, "Conflict")
              ELSE Goto(p, S, "save")
         [] p.pc = "save" ->
              LET id == S.seq.categories + 1
                  row == ObjectAssign(CategoryDefaults,
                            [isSystem |-> FALSE] @@ dto @@ [id |-> id, userId |-> u])
              IN IF Categories_uniqueViolation(S.categories, row)
                 THEN Throw(p, S, "DbError")
                 ELSE GotoWith(p, [S EXCEPT !.categories = Upsert(@, row),
                                            !.seq.categories = id],
                               "cacheDel", [saved |-> row])
         [] p.pc = "cacheDel" ->
              Return(p, [S EXCEPT !.cache = CacheDel(@, <<"categories", u>>)],
                     p.loc.saved)

Categories_remove(p, S) ==
    LET u == p.userId
    IN CASE p.pc = "start" ->
              LET found == Categories_findOne(S, u, p.arg.id)
              IN IF found = {} THEN Throw(p, S, "NotFound")
                 ELSE LET c == CHOOSE r \in found : TRUE
                      IN IF c.isSystem THEN Throw(p, S, "BadRequest")
                         ELSE IF c.userId # u THEN Throw(p, S, "BadRequest")
                         ELSE GotoWith(p, S, "count", [entity |-> c])
         [] p.pc = "count" ->
              \* the query builder rejects a join over a relation the entity
              \* does not declare
              IF ~Category_hasExpensesRelation THEN Throw(p, S, "QueryError")
              ELSE IF Categories_countWithExpenses(S, p.arg.id) > 0
              THEN Throw(p, S, "BadRequest")
              ELSE Goto(p, S, "remove")
         [] p.pc = "remove" ->
              IF \E e \in DOMAIN S.expenses :
                     S.expenses[e].categoryId = p.loc.entity.id
              THEN Throw(p, S, "DbError")
              ELSE Goto(p, [S EXCEPT !.categories = Delete(@, p.loc.entity.id)],
                        "cacheDel")
         [] p.pc = "cacheDel" ->
              Return(p, [S EXCEPT !.cache = CacheDel(@, <<"categories", u>>)], <<>>)

Categories_update(p, S) ==
    LET dto == p.arg.dto
        u == p.userId
    IN CASE p.pc = "start" ->
              LET found == Categories_findOne(S, u, p.arg.id)
              IN IF found = {} THEN Throw(p, S, "NotFound")
                 ELSE LET c == CHOOSE r \in found : TRUE
                      IN IF c.isSystem THEN Throw(p, S, "BadRequest")
                         ELSE IF c.userId # u THEN Throw(p, S, "BadRequest")
                         ELSE GotoWith(p, S,
                                  IF Has(dto, "name") /\ dto.name # c.name
                                  THEN "findByName" ELSE "save",
                                  [entity |-> c])
         [] p.pc = "findByName" ->
              IF Categories_findByName(S, u, dto.name) # {}
              THEN Throw(p, S, "Conflict")
              ELSE Goto(p, S, "save")
         [] p.pc = "save" ->
              LET e == ObjectAssign(p.loc.entity, dto)
              IN IF Categories_uniqueViolation(S.categories, e)
                 THEN Throw(p, S, "DbError")
                 ELSE GotoWith(p, [S EXCEPT !.categories = Upsert(@, e)],
                               "cacheDel", [entity |-> e])
         [] p.pc = "cacheDel" ->
              Return(p, [S EXCEPT !.cache = CacheDel(@, <<"categories", u>>)],
                     p.loc.entity)

\* reorder(userId, categoryIds): loc.i is the loop's position in the list
\* (from 1; the code's i is loc.i - 1); pc = "find" is the findOne of entry
\* i, pc = "save" the save of its new orderIndex.
Categories_reorder(p, S) ==
    LET ids == p.arg.categoryIds
        u == p.userId
        advance(S2) == GotoWith(p, S2, IF p.loc.i = Len(ids) THEN "cacheDel" ELSE "find",
                                [i |-> p.loc.i + 1])
    IN CASE p.pc = "start" ->
              GotoWith(p, S, IF Len(ids) = 0 THEN "cacheDel" ELSE "find", [i |-> 1])
         [] p.pc = "find" ->
              LET found == Categories_findOne(S, u, ids[p.loc.i])
              IN IF found = {} THEN Throw(p, S, "NotFound")
                 ELSE LET c == CHOOSE r \in found : TRUE
                      IN IF c.userId = u
                         THEN GotoWith(p, S, "save", [category |-> c])
                         ELSE advance(S)
         [] p.pc = "save" ->
              LET e == [p.loc.category EXCEPT !.orderIndex = p.loc.i - 1]
              IN advance([S EXCEPT !.categories = Upsert(@, e)])
         [] p.pc = "cacheDel" ->
              Return(p, [S EXCEPT !.cache = CacheDel(@, <<"categories", u>>)], <<>>)

\* createDefaultCategories(): loc.i is the loop's position in the catalog;
\* pc = "find" is the not-exists check of entry i, pc = "save" its insert.
Categories_createDefaultCategories(p, S) ==
    LET n == Len(defaultCategories)
        advance(S2) == IF p.loc.i = n THEN Return(p, S2, <<>>)
                       ELSE GotoWith(p, S2, "find", [i |-> p.loc.i + 1])
    IN CASE p.pc = "start" -> GotoWith(p, S, "find", [i |-> 1])
         [] p.pc = "find" ->
              IF Categories_findSystemByName(S.categories,
                                             defaultCategories[p.loc.i]) # {}
              THEN advance(S)
              ELSE Goto(p, S, "save")
         [] p.pc = "save" ->
              LET id == S.seq.categories + 1
                  row == [id |-> id, name |-> defaultCategories[p.loc.i],
                          orderIndex |-> p.loc.i - 1,
                          isSystem |-> TRUE, userId |-> NoUser]
              IN advance([S EXCEPT !.categories = Upsert(@, row),
                                   !.seq.categories = id])

(***************************************************************************)
(* Ingestion adapters: OcrService and VoiceService.                        *)
(*                                                                         *)
(* A deployment is [hasOpenAI, hasGoogle]: which API credentials are       *)
(* configured.  An upload (a receipt image, an audio recording) is         *)
(* abstracted to what the recognisers get out of it:                       *)
(*   ai      - the amount field of the JSON the language model answers     *)
(*             (0: the field is missing or zero, so `!result.amount`);     *)
(*   numbers - the numbers the amount pattern matches in the recognised    *)
(*             text, in the order of the text.                             *)
(* The description is taken to be present.                                 *)
(***************************************************************************)
Deployments == [hasOpenAI : BOOLEAN, hasGoogle : BOOLEAN]

Uploads == [ai : {0, 2}, numbers : {<<>>, <<1, 2>>}]

RECURSIVE MaxOf(_)
\* Math.max(...amounts) of a non-empty list
MaxOf(ns) ==
    IF Len(ns) = 1 THEN ns[1]
    ELSE LET m == MaxOf(Tail(ns)) IN IF ns[1] > m THEN ns[1] ELSE m

Failed(kind) == [ok |-> FALSE, error |-> kind, amount |-> 0]

Extracted(amount) == [ok |-> TRUE, error |-> "", amount |-> amount]

\* OcrService.extractBasicInfo: the largest number found, 0 when none is.
OcrService_extractBasicInfo(numbers) ==
    Extracted(IF Len(numbers) > 0 THEN MaxOf(numbers) ELSE 0)

OcrService_processReceiptWithOpenAI(dep, up) ==
    IF ~dep.hasOpenAI THEN Failed("BadRequest")
    ELSE IF up.ai = 0 THEN Failed("BadRequest")
    ELSE Extracted(up.ai)

OcrService_processReceiptWithGoogleVision(dep, up) ==
    IF ~dep.hasGoogle THEN Failed("BadRequest")
    ELSE IF dep.hasOpenAI
    THEN IF up.ai = 0 THEN Failed("BadRequest") ELSE Extracted(up.ai)
    ELSE OcrService_extractBasicInfo(up.numbers)

OcrService_processReceipt(dep, up) ==
    IF dep.hasOpenAI THEN OcrService_processReceiptWithOpenAI(dep, up)
    ELSE IF dep.hasGoogle THEN OcrService_processReceiptWithGoogleVision(dep, up)
    ELSE Failed("BadRequest")

\* VoiceService.extractBasicExpenseInfo: the first number found, 0 when none is.
VoiceService_extractBasicExpenseInfo(numbers) ==
    Extracted(IF Len(numbers) > 0 THEN numbers[1] ELSE 0)

\* VoiceService.extractExpenseFromText: the language model's answer, and the
\* basic extraction when there is no model or its answer lacks the amount.
VoiceService_extractExpenseFromText(dep, up) ==
    IF ~dep.hasOpenAI THEN VoiceService_extractBasicExpenseInfo(up.numbers)
    ELSE IF up.ai = 0 THEN VoiceService_extractBasicExpenseInfo(up.numbers)
    ELSE Extracted(up.ai)

VoiceService_processVoice(dep, up) ==
    IF dep.hasOpenAI \/ dep.hasGoogle
    THEN VoiceService_extractExpenseFromText(dep, up)
    ELSE Failed("BadRequest")

(***************************************************************************)
(* ExpensesService                                                         *)
(***************************************************************************)

\* A faulty findOne that does not filter on the owner.
Expenses_findOne_anyOwner(S, userId, id) ==
    {S.expenses[i] : i \in {j \in DOMAIN S.expenses : j = id}}

\* findOne({ where: { id, userId } })
Expenses_findOne(S, userId, id) ==
    {S.expenses[i] : i \in {j \in DOMAIN S.expenses :
                               j = id /\ S.expenses[j].userId = userId}}

\* The foreign keys of an expense row: its category and payment method exist.
Expenses_foreignKeysHold(S, e) ==
    e.categoryId \in DOMAIN S.categories /\ e.paymentMethodId \in DOMAIN S.paymentMethods

SummaryKey(userId) == <<"expenses:summary", userId>>

\* invalidateCache(userId)
Expenses_invalidateCache(S, userId) ==
    [S EXCEPT !.cache = CacheDel(@, SummaryKey(userId))]

\* The insert of a new expense row, common to the three creation paths.
Expenses_insert(p, S, fields, pcNext) ==
    LET id == S.seq.expenses + 1
        row == fields @@ [id |-> id, userId |-> p.userId]
    IN IF ~Expenses_foreignKeysHold(S, row) THEN Throw(p, S, "DbError")
       ELSE GotoWith(p, [S EXCEPT !.expenses = Upsert(@, row), !.seq.expenses = id],
                     pcNext, [saved |-> row])

Expenses_create(p, S) ==
    LET dto == p.arg.dto
        u == p.userId
    IN CASE p.pc = "start" ->
              IF Categories_findOne(S, u, dto.categoryId) = {}
              THEN Throw(p, S, "NotFound") ELSE Goto(p, S, "pmFind")
         [] p.pc = "pmFind" ->
              IF PaymentMethods_findOne(S, u, dto.paymentMethodId) = {}
              THEN Throw(p, S, "NotFound") ELSE Goto(p, S, "save")
         [] p.pc = "save" ->
              Expenses_insert(p, S, dto @@ [source |-> "manual"], "ubFind")
         [] p.pc \in {"ubFind", "ubSave"} ->
              PaymentMethods_updateBalance(p, S, dto.paymentMethodId, dto.amount,
                                           "subtract", "ubFind", "ubSave", "invalidate")
         [] p.pc = "invalidate" ->
              Return(p, Expenses_invalidateCache(S, u), p.loc.saved)

\* createFromOcr(userId, data); data is p.loc.data, the upload always there.
Expenses_createFromOcr(p, S) ==
    LET data == p.loc.data
        u == p.userId
    IN CASE p.pc = "service" ->
              IF Categories_findOne(S, u, data.categoryId) = {}
              THEN Throw(p, S, "NotFound") ELSE Goto(p, S, "pmFind")
         [] p.pc = "pmFind" ->
              IF PaymentMethods_findOne(S, u, data.paymentMethodId) = {}
              THEN Throw(p, S, "NotFound") ELSE Goto(p, S, "upload")
         [] p.pc = "upload" ->
              IF ~p.arg.storageOk THEN Throw(p, S, "StorageError")
              ELSE Goto(p, S, "save")
         [] p.pc = "save" ->
              Expenses_insert(p, S,
                  [amount |-> data.amount, categoryId |-> data.categoryId,
                   paymentMethodId |-> data.paymentMethodId, source |-> "ocr",
                   receiptS3Key |-> "receipts"],
                  "ubFind")
         [] p.pc \in {"ubFind", "ubSave"} ->
              PaymentMethods_updateBalance(p, S, data.paymentMethodId, data.amount,
                                           "subtract", "ubFind", "ubSave", "invalidate")
         [] p.pc = "invalidate" ->
              Return(p, Expenses_invalidateCache(S, u), p.loc.saved)

\* createFromVoice(userId, data); data is p.loc.data, with data.audioFile
\* telling whether the recording came along.
Expenses_createFromVoice(p, S) ==
    LET data == p.loc.data
        u == p.userId
    IN CASE p.pc = "service" ->
              IF Categories_findOne(S, u, data.categoryId) = {}
              THEN Throw(p, S, "NotFound") ELSE Goto(p, S, "pmFind")
         [] p.pc = "pmFind" ->
              IF PaymentMethods_findOne(S, u, data.paymentMethodId) = {}
              THEN Throw(p, S, "NotFound")
              ELSE Goto(p, S, IF data.audioFile THEN "upload" ELSE "save")
         [] p.pc = "upload" ->
              IF ~p.arg.storageOk THEN Throw(p, S, "StorageError")
              ELSE Goto(p, S, "save")
         [] p.pc = "save" ->
              Expenses_insert(p, S,
                  [amount |-> data.amount, categoryId |-> data.categoryId,
                   paymentMethodId |-> data.paymentMethodId, source |-> "voice"]
                  @@ (IF data.audioFile THEN [voiceAudioS3Key |-> "voice"] ELSE <<>>),
                  "ubFind")
         [] p.pc \in {"ubFind", "ubSave"} ->
              PaymentMethods_updateBalance(p, S, data.paymentMethodId, data.amount,
                                           "subtract", "ubFind", "ubSave", "invalidate")
         [] p.pc = "invalidate" ->
              Return(p, Expenses_invalidateCache(S, u), p.loc.saved)

\* ExpensesController.createFromReceipt with a file, a paymentMethodId and a
\* categoryId in the body: the OCR adapter, then createFromOcr.
ExpensesController_createFromReceipt(p, S) ==
    IF p.pc = "start"
    THEN LET ocrResult == OcrService_processReceipt(p.arg.deployment, p.arg.upload)
         IN IF ~ocrResult.ok THEN Throw(p, S, ocrResult.error)
            ELSE GotoWith(p, S, "service",
                    [data |-> [amount |-> ocrResult.amount,
                               categoryId |-> p.arg.categoryId,
                               paymentMethodId |-> p.arg.paymentMethodId]])
    ELSE Expenses_createFromOcr(p, S)

\* ExpensesController.createFromVoice, likewise: the voice adapter, then
\* createFromVoice with the uploaded file as audioFile.
ExpensesController_createFromVoice(p, S) ==
    IF p.pc = "start"
    THEN LET voiceResult == VoiceService_processVoice(p.arg.deployment, p.arg.upload)
         IN IF ~voiceResult.ok THEN Throw(p, S, voiceResult.error)
            ELSE GotoWith(p, S, "service",
                    [data |-> [amount |-> voiceResult.amount,
                               categoryId |-> p.arg.categoryId,
                               paymentMethodId |-> p.arg.paymentMethodId,
                               audioFile |-> TRUE]])
    ELSE Expenses_createFromVoice(p, S)

Expenses_update(p, S) ==
    LET dto == p.arg.dto
        u == p.userId
        afterCategory == IF Has(dto, "paymentMethodId") THEN "pmFind" ELSE "save"
    IN CASE p.pc = "start" ->
              LET found == Expenses_findOne(S, u, p.arg.id)
              IN IF found = {} THEN Throw(p, S, "NotFound")
                 ELSE LET e == CHOOSE r \in found : TRUE
                      IN GotoWith(p, S,
                            IF Has(dto, "categoryId") THEN "catFind" ELSE afterCategory,
                            [expense |-> e, oldAmount |-> e.amount,
                             oldPaymentMethodId |-> e.paymentMethodId])
         [] p.pc = "catFind" ->
              IF Categories_findOne(S, u, dto.categoryId) = {}
              THEN Throw(p, S, "NotFound") ELSE Goto(p, S, afterCategory)
         [] p.pc = "pmFind" ->
              IF PaymentMethods_findOne(S, u, dto.paymentMethodId) = {}
              THEN Throw(p, S, "NotFound") ELSE Goto(p, S, "save")
         [] p.pc = "save" ->
              LET updated == ObjectAssign(p.loc.expense, dto)
              IN IF ~Expenses_foreignKeysHold(S, updated) THEN Throw(p, S, "DbError")
                 ELSE GotoWith(p, [S EXCEPT !.expenses = Upsert(@, updated)],
                         IF \/ p.loc.oldAmount # updated.amount
                            \/ p.loc.oldPaymentMethodId # updated.paymentMethodId
                         THEN "creditFind" ELSE "invalidate",
                         [updated |-> updated])
         [] p.pc \in {"creditFind", "creditSave"} ->
              PaymentMethods_updateBalance(p, S, p.loc.oldPaymentMethodId,
                  p.loc.oldAmount, "add", "creditFind", "creditSave", "debitFind")
         [] p.pc \in {"debitFind", "debitSave"} ->
              PaymentMethods_updateBalance(p, S, p.loc.updated.paymentMethodId,
                  p.loc.updated.amount, "subtract", "debitFind", "debitSave",
                  "invalidate")
         [] p.pc = "invalidate" ->
              Return(p, Expenses_invalidateCache(S, u), p.loc.updated)

\* A faulty remove that deletes the row and evicts the cache entry before it
\* deletes the blobs.
Expenses_remove_rowFirst(p, S) ==
    LET u == p.userId
        e == p.loc.expense
        afterReceipt == IF Has(e, "voiceAudioS3Key") THEN "deleteAudio" ELSE "done"
        afterEvict == IF Has(e, "receiptS3Key") THEN "deleteReceipt" ELSE afterReceipt
        finish(q) == IF q.p.pc = "done" THEN Return(p, q.S, <<>>) ELSE q
    IN CASE p.pc = "start" ->
              LET found == Expenses_findOne(S, u, p.arg.id)
              IN IF found = {} THEN Throw(p, S, "NotFound")
                 ELSE GotoWith(p, S, "creditFind",
                               [expense |-> CHOOSE r \in found : TRUE])
         [] p.pc \in {"creditFind", "creditSave"} ->
              PaymentMethods_updateBalance(p, S, e.paymentMethodId, e.amount,
                  "add", "creditFind", "creditSave", "remove")
         [] p.pc = "remove" ->
              Goto(p, [S EXCEPT !.expenses = Delete(@, e.id)], "invalidate")
         [] p.pc = "invalidate" ->
              finish(Goto(p, Expenses_invalidateCache(S, u), afterEvict))
         [] p.pc = "deleteReceipt" ->
              IF ~p.arg.storageOk THEN Throw(p, S, "StorageError")
              ELSE finish(Goto(p, S, afterReceipt))
         [] p.pc = "deleteAudio" ->
              IF ~p.arg.storageOk THEN Throw(p, S, "StorageError")
              ELSE Return(p, S, <<>>)

Expenses_remove(p, S) ==
    LET u == p.userId
        e == p.loc.expense
        afterReceipt == IF Has(e, "voiceAudioS3Key") THEN "deleteAudio" ELSE "remove"
        afterCredit == IF Has(e, "receiptS3Key") THEN "deleteReceipt" ELSE afterReceipt
    IN CASE p.pc = "start" ->
              LET found == Expenses_findOne(S, u, p.arg.id)
              IN IF found = {} THEN Throw(p, S, "NotFound")
                 ELSE GotoWith(p, S, "creditFind",
                               [expense |-> CHOOSE r \in found : TRUE])
         [] p.pc \in {"creditFind", "creditSave"} ->
              PaymentMethods_updateBalance(p, S, e.paymentMethodId, e.amount,
                  "add", "creditFind", "creditSave", afterCredit)
         [] p.pc = "deleteReceipt" ->
              IF ~p.arg.storageOk THEN Throw(p, S, "StorageError")
              ELSE Goto(p, S, afterReceipt)
         [] p.pc = "deleteAudio" ->
              IF ~p.arg.storageOk THEN Throw(p, S, "StorageError")
              ELSE Goto(p, S, "remove")
         [] p.pc = "remove" ->
              Goto(p, [S EXCEPT !.expenses = Delete(@, e.id)], "invalidate")
         [] p.pc = "invalidate" ->
              Return(p, Expenses_invalidateCache(S, u), <<>>)

(***************************************************************************)
(* Summary aggregator: ExpensesService.getSummary                          *)
(***************************************************************************)
ExpensesOf(S, userId) == {i \in DOMAIN S.expenses : S.expenses[i].userId = userId}

AmountOf(S) == [i \in DOMAIN S.expenses |-> S.expenses[i].amount]

\* SELECT COUNT(*), SUM(amount) over the rows whose ids are in ids
Aggregate(S, ids) == [count |-> Cardinality(ids), total |-> SumOver(AmountOf(S), ids)]

\* The total query: count and sum over the owner's expenses.
Expenses_totalQuery(S, userId) == Aggregate(S, ExpensesOf(S, userId))

\* The per-category query: one group per category of the owner's expenses.
Expenses_byCategoryQuery(S, userId) ==
    LET mine == ExpensesOf(S, userId)
    IN [c \in {S.expenses[i].categoryId : i \in mine} |->
           Aggregate(S, {i \in mine : S.expenses[i].categoryId = c})]

\* The per-payment-method query.
Expenses_byPaymentMethodQuery(S, userId) ==
    LET mine == ExpensesOf(S, userId)
    IN [m \in {S.expenses[i].paymentMethodId : i \in mine} |->
           Aggregate(S, {i \in mine : S.expenses[i].paymentMethodId = m})]

\* (part / totalAmount) * 100 as the exact ratio num / den.  The division is
\* JavaScript's: with den = 0 the number is NaN when num = 0 and Infinity
\* otherwise.
Percentage(part, totalAmount) == [num |-> 100 * part, den |-> totalAmount]

\* x is the number 0.
IsZero(x) == x.den # 0 /\ x.num = 0

\* rows.map(...): each entry of a breakdown with its percentage of the total.
WithPercentage(rows, totalAmount) ==
    [k \in DOMAIN rows |->
        [count |-> rows[k].count, total |-> rows[k].total,
         percentage |-> Percentage(rows[k].total, totalAmount)]]

\* The ExpenseSummaryDto built from the three query results.
ExpenseSummary(total, byCategory, byPaymentMethod) ==
    [totalExpenses |-> total.count, totalAmount |-> total.total,
     byCategory |-> WithPercentage(byCategory, total.total),
     byPaymentMethod |-> WithPercentage(byPaymentMethod, total.total)]

Expenses_getSummary(p, S) ==
    LET u == p.userId
    IN CASE p.pc = "start" ->
              IF CacheGetRejects(p) THEN Throw(p, S, "CacheError")
              ELSE IF ~CacheDown(p) /\ SummaryKey(u) \in DOMAIN S.cache
              THEN Return(p, S, S.cache[SummaryKey(u)])
              ELSE Goto(p, S, "total")
         [] p.pc = "total" ->
              GotoWith(p, S, "byCategory", [total |-> Expenses_totalQuery(S, u)])
         [] p.pc = "byCategory" ->
              GotoWith(p, S, "byPaymentMethod",
                       [byCategory |-> Expenses_byCategoryQuery(S, u)])
         [] p.pc = "byPaymentMethod" ->
              GotoWith(p, S, "cacheSet",
                       [summary |-> ExpenseSummary(p.loc.total, p.loc.byCategory,
                                        Expenses_byPaymentMethodQuery(S, u))])
         [] p.pc = "cacheSet" ->
              Return(p, [S EXCEPT !.cache = CacheSet(@, SummaryKey(u), p.loc.summary)],
                     p.loc.summary)

\* The column the rows are ordered by.  createdAt is the insertion time;
\* rows are inserted one after the other, so it orders rows as their ids do.
Expenses_sortKey(e, sortBy) ==
    CASE sortBy = "date" -> e.date
      [] sortBy = "amount" -> e.amount
      [] sortBy = "createdAt" -> e.id

\* order: { [sortBy]: sortOrder }: row a comes before row b.  The database
\* returns rows with equal keys in an order of its own choosing: by
\* ascending id when tiesAsc holds, by descending id otherwise.
Expenses_before(a, b, sortBy, sortOrder, tiesAsc) ==
    LET ka == Expenses_sortKey(a, sortBy)
        kb == Expenses_sortKey(b, sortBy)
    IN \/ sortOrder = "ASC" /\ ka < kb
       \/ sortOrder = "DESC" /\ ka > kb
       \/ ka = kb /\ (IF tiesAsc THEN a.id < b.id ELSE a.id > b.id)

RECURSIVE Expenses_ordered(_, _, _, _)
Expenses_ordered(rows, sortBy, sortOrder, tiesAsc) ==
    IF rows = {} THEN <<>>
    ELSE LET first == CHOOSE a \in rows :
                 \A b \in rows \ {a} : Expenses_before(a, b, sortBy, sortOrder, tiesAsc)
         IN <<first>> \o Expenses_ordered(rows \ {first}, sortBy, sortOrder, tiesAsc)

\* The where clause findAll builds: the ids of the rows it selects.  Dates
\* are day numbers; Between(a, b) is a <= date <= b.
Expenses_where(S, userId, query) ==
    {i \in DOMAIN S.expenses :
        /\ S.expenses[i].userId = userId
        /\ (Has(query, "startDate") /\ Has(query, "endDate"))
              => /\ query.startDate <= S.expenses[i].date
                 /\ S.expenses[i].date <= query.endDate
        /\ Has(query, "categoryId") => S.expenses[i].categoryId = query.categoryId
        /\ Has(query, "paymentMethodId")
              => S.expenses[i].paymentMethodId = query.paymentMethodId}

\* relations: ['category', 'paymentMethod']: the row with the rows it refers to.
Expenses_withRelations(S, e) ==
    e @@ [category |-> S.categories[e.categoryId],
          paymentMethod |-> S.paymentMethods[e.paymentMethodId]]

\* Math.ceil(a / b) for a >= 0 and b >= 1.
Ceil(a, b) == (a + b - 1) \div b

\* skip and take on an ordered list.
SkipTake(list, skip, take) ==
    SubSeq(list, skip + 1, IF skip + take < Len(list) THEN skip + take ELSE Len(list))

\* findAll(userId, query)
Expenses_findAll(p, S) ==
    LET query == p.arg.query
        page == IF Has(query, "page") THEN query.page ELSE 1
        limit == IF Has(query, "limit") THEN query.limit ELSE 20
        sortBy == IF Has(query, "sortBy") THEN query.sortBy ELSE "date"
        sortOrder == IF Has(query, "sortOrder") THEN query.sortOrder ELSE "DESC"
        skip == (page - 1) * limit
        ids == Expenses_where(S, p.userId, query)
        rows == {Expenses_withRelations(S, S.expenses[i]) : i \in ids}
        data == SkipTake(Expenses_ordered(rows, sortBy, sortOrder, p.arg.tiesAsc),
                         skip, limit)
        total == Cardinality(ids)
    IN Return(p, S, [data |-> data,
                     meta |-> [total |-> total, page |-> page, limit |-> limit,
                               totalPages |-> Ceil(total, limit)]])

\* The rank of a category name in the ascending order of names.
CategoryNameRank(name) ==
    CASE name = "Comida" -> 1 [] name = "Compras" -> 2 [] name = "Educacion" -> 3
      [] name = "Entretenimiento" -> 4 [] name = "Otros" -> 5 [] name = "Salud" -> 6
      [] name = "Servicios" -> 7 [] name = "Transporte" -> 8 [] name = "Viajes" -> 9

\* order: { orderIndex: 'ASC', name: 'ASC' }: row a comes before row b.
Categories_before(a, b) ==
    \/ a.orderIndex < b.orderIndex
    \/ a.orderIndex = b.orderIndex /\ CategoryNameRank(a.name) < CategoryNameRank(b.name)

RECURSIVE Categories_ordered(_)
\* The rows of a set in that order (rows that tie come in either order).
Categories_ordered(rows) ==
    IF rows = {} THEN <<>>
    ELSE LET first == CHOOSE a \in rows : \A b \in rows : ~Categories_before(b, a)
         IN <<first>> \o Categories_ordered(rows \ {first})

\* find({ where: [{ userId }, { isSystem: true }], order })
Categories_find(S, userId) ==
    Categories_ordered(
        {S.categories[i] : i \in {j \in DOMAIN S.categories :
            S.categories[j].userId = userId \/ S.categories[j].isSystem}})

CategoriesKey(userId) == <<"categories", userId>>

\* CategoriesService.findAll(userId), called inside a request: pcGet is the
\* cache lookup, pcFind the query, pcSet the cache write; the list is left
\* in loc.categories and the request goes on at pcNext.
Categories_findAll(p, S, pcGet, pcFind, pcSet, pcNext) ==
    LET u == p.userId
    IN CASE p.pc = pcGet ->
              IF CacheGetRejects(p) THEN Throw(p, S, "CacheError")
              ELSE IF ~CacheDown(p) /\ CategoriesKey(u) \in DOMAIN S.cache
              THEN GotoWith(p, S, pcNext, [categories |-> S.cache[CategoriesKey(u)]])
              ELSE Goto(p, S, pcFind)
         [] p.pc = pcFind ->
              GotoWith(p, S, pcSet, [categories |-> Categories_find(S, u)])
         [] p.pc = pcSet ->
              Goto(p, [S EXCEPT !.cache = CacheSet(@, CategoriesKey(u), p.loc.categories)],
                   pcNext)

\* hint.toLowerCase(), on the hints a request may carry.
ToLowerCase(s) ==
    CASE s = "Comida" -> "comida"
      [] s = "EDUCACION" -> "educacion"
      [] OTHER -> s

\* The keyword table of suggestCategoryFromHint.
categoryMap ==
    [comida |-> "Comida", transporte |-> "Transporte",
     entretenimiento |-> "Entretenimiento", salud |-> "Salud",
     educacion |-> "Educacion", compras |-> "Compras", servicios |-> "Servicios"]

\* categories.find((cat) => cat.name === name): the first such row of the
\* list, or none.
FindByName(list, name) ==
    LET at == {k \in DOMAIN list : list[k].name = name}
    IN IF at = {} THEN {} ELSE {list[CHOOSE k \in at : \A j \in at : k <= j]}

\* The answer of a suggestion: <<id>>, or <<>> for undefined.
IdOf(rows) == IF rows = {} THEN <<>> ELSE <<(CHOOSE r \in rows : TRUE).id>>

\* categories[0], or none.
Expenses_firstOf(list) == IF list = <<>> THEN {} ELSE {list[1]}

\* suggestCategory(userId, description), called inside a request:
\* othersCategory?.id || categories[0]?.id of the list findAll returns.
Expenses_suggestCategory(p, S, pcGet, pcFind, pcSet, pcPick) ==
    IF p.pc = pcPick
    THEN LET othersCategory == FindByName(p.loc.categories, "Otros")
         IN Return(p, S, IF othersCategory # {} THEN IdOf(othersCategory)
                         ELSE IdOf(Expenses_firstOf(p.loc.categories)))
    ELSE Categories_findAll(p, S, pcGet, pcFind, pcSet, pcPick)

\* suggestCategoryFromHint(userId, hint); an absent hint is a request
\* without the field.
Expenses_suggestCategoryFromHint(p, S) ==
    LET noHint == ~Has(p.arg, "hint") \/ p.arg.hint = ""
    IN CASE p.pc = "start" -> Goto(p, S, IF noHint THEN "cacheGet2" ELSE "cacheGet")
         [] p.pc \in {"cacheGet", "find", "cacheSet"} ->
              Categories_findAll(p, S, "cacheGet", "find", "cacheSet", "map")
         [] p.pc = "map" ->
              LET key == ToLowerCase(p.arg.hint)
                  category == IF key \in DOMAIN categoryMap
                              THEN FindByName(p.loc.categories, categoryMap[key])
                              ELSE {}
              IN IF category # {} THEN Return(p, S, IdOf(category))
                 ELSE Goto(p, S, "cacheGet2")
         [] p.pc \in {"cacheGet2", "find2", "cacheSet2", "pick"} ->
              Expenses_suggestCategory(p, S, "cacheGet2", "find2", "cacheSet2", "pick")

(***************************************************************************)
(* One step of a request, and a request run to completion.                 *)
(***************************************************************************)
Step(p, S) ==
    IF CacheDown(p) /\ p.pc \in CacheWritePcs THEN Throw(p, S, "CacheError") ELSE
    CASE p.op = "paymentMethods.create" -> PaymentMethods_create(p, S)
      [] p.op = "paymentMethods.findAll" -> PaymentMethods_findAll(p, S)
      [] p.op = "paymentMethods.findAllWithStats" ->
             PaymentMethods_findAllWithStats(p, S)
      [] p.op = "paymentMethods.update" -> PaymentMethods_update(p, S)
      [] p.op = "paymentMethods.remove" -> PaymentMethods_remove(p, S)
      [] p.op = "paymentMethods.setDefault" -> PaymentMethods_setDefault(p, S)
      [] p.op = "categories.create" -> Categories_create(p, S)
      [] p.op = "categories.update" -> Categories_update(p, S)
      [] p.op = "categories.remove" -> Categories_remove(p, S)
      [] p.op = "categories.reorder" -> Categories_reorder(p, S)
      [] p.op = "categories.seedDefaults" -> Categories_createDefaultCategories(p, S)
      [] p.op = "expenses.create" -> Expenses_create(p, S)
      [] p.op = "expenses.findAll" -> Expenses_findAll(p, S)
      [] p.op = "expenses.suggestCategoryFromHint" ->
             Expenses_suggestCategoryFromHint(p, S)
      [] p.op = "expenses.createFromReceipt" -> ExpensesController_createFromReceipt(p, S)
      [] p.op = "expenses.createFromVoice" -> ExpensesController_createFromVoice(p, S)
      [] p.op = "expenses.update" -> Expenses_update(p, S)
      [] p.op = "expenses.remove" -> Expenses_remove(p, S)
      [] p.op = "expenses.getSummary" -> Expenses_getSummary(p, S)

RECURSIVE Run(_, _)
Run(p, S) ==
    IF p.pc = "done" THEN [p |-> p, S |-> S]
    ELSE LET n == Step(p, S) IN Run(n.p, n.S)

RECURSIVE Visited(_, _)
\* The steps request p passes through when it runs alone from shared state S.
Visited(p, S) ==
    IF p.pc = "done" THEN {}
    ELSE LET n == Step(p, S) IN {p.pc} \cup Visited(n.p, n.S)

\* The outcome of serving request req alone, from shared state S.
Serve(req, S) == Run(NewProc(req), S)

(***************************************************************************)
(* Requests.                                                               *)
(***************************************************************************)
Request(op, userId, arg) == [op |-> op, userId |-> userId, arg |-> arg]

\* Ids a request may name: those of stored rows, and 0, which no row has.
PmIdInputs == DOMAIN paymentMethods \cup {0}

ExpenseIdInputs == DOMAIN expenses \cup {0}

\* Category ids a request may name: the users' categories, one system
\* category (the first seeded), and 0.
CategoryIdInputs ==
    LET sys == {i \in DOMAIN categories : categories[i].isSystem}
    IN {i \in DOMAIN categories : ~categories[i].isSystem}
       \cup {i \in sys : \A j \in sys : i <= j} \cup {0}

CategoryNames == {"Viajes", "Otros"}

PmCreateDtos ==
    {[name |-> n] @@ d @@ b :
        n \in PmNames, d \in Opt("isDefault", {TRUE}), b \in Opt("balance", BalanceInputs)}

PmUpdateDtos ==
    {n @@ d @@ b :
        n \in Opt("name", PmNames), d \in Opt("isDefault", BOOLEAN),
        b \in Opt("balance", BalanceInputs)}

ExpenseCreateDtos ==
    [amount : AmountInputs, categoryId : CategoryIdInputs, paymentMethodId : PmIdInputs]

ExpenseUpdateDtos ==
    {a @@ c @@ m :
        a \in Opt("amount", AmountInputs), c \in Opt("categoryId", CategoryIdInputs),
        m \in Opt("paymentMethodId", PmIdInputs)}

\* One (deployment, upload) pair for each distinct answer of the receipt
\* adapter, and likewise for the voice adapter.
OcrInputs ==
    LET all == Deployments \X Uploads
        res(x) == OcrService_processReceipt(x[1], x[2])
    IN {CHOOSE x \in all : res(x) = r : r \in {res(y) : y \in all}}

VoiceInputs ==
    LET all == Deployments \X Uploads
        res(x) == VoiceService_processVoice(x[1], x[2])
    IN {CHOOSE x \in all : res(x) = r : r \in {res(y) : y \in all}}

IngestArgs(inputs) ==
    {[deployment |-> x[1], upload |-> x[2], categoryId |-> c,
      paymentMethodId |-> m, storageOk |-> TRUE] :
        x \in inputs, c \in CategoryIdInputs, m \in PmIdInputs}

(***************************************************************************)
(* The initial database: a deployment in use.  It is what serving the      *)
(* requests of Setup, one after another, makes of the empty database.      *)
(***************************************************************************)
EmptyDB ==
    [paymentMethods |-> EmptyTable, categories |-> EmptyTable,
     expenses |-> EmptyTable, cache |-> <<>>,
     seq |-> [paymentMethods |-> 0, categories |-> 0, expenses |-> 0]]

Setup ==
    << Request("categories.seedDefaults", NoUser, <<>>),
       Request("paymentMethods.create", "u1",
               [dto |-> [name |-> "Cash", type |-> "cash", balance |-> 10,
                         isDefault |-> TRUE]]),
       Request("paymentMethods.create", "u2",
               [dto |-> [name |-> "Cash", type |-> "cash", balance |-> 10]]),
       Request("categories.create", "u1", [dto |-> [name |-> "Viajes"]]),
       Request("expenses.create", "u1",
               [dto |-> [amount |-> 2, date |-> 2, categoryId |-> 9,
                         paymentMethodId |-> 1]]) >>

RECURSIVE ServeAll(_, _)
ServeAll(reqs, S) ==
    IF reqs = <<>> THEN S ELSE ServeAll(Tail(reqs), Serve(Head(reqs), S).S)

InitDB == ServeAll(Setup, EmptyDB)

(***************************************************************************)
(* Spec: requests served one at a time, each to completion.                *)
(***************************************************************************)
NoCall == [op |-> "none", userId |-> NoUser, result |-> "none", value |-> <<>>]

Init ==
    /\ paymentMethods = InitDB.paymentMethods
    /\ categories = InitDB.categories
    /\ expenses = InitDB.expenses
    /\ cache = InitDB.cache
    /\ seq = InitDB.seq
    /\ lastCall = NoCall
    /\ calls = 0
    /\ procs = <<>>

SetDB(S) ==
    /\ paymentMethods' = S.paymentMethods
    /\ categories' = S.categories
    /\ expenses' = S.expenses
    /\ cache' = S.cache
    /\ seq' = S.seq

Call(req) ==
    LET r == Serve(req, DB)
    IN /\ calls < MaxCalls
       /\ calls' = calls + 1
       /\ SetDB(r.S)
       /\ lastCall' = [op |-> req.op, userId |-> req.userId,
                       result |-> r.p.result, value |-> r.p.value]
       /\ UNCHANGED procs

PaymentMethodsCreate ==
    \E u \in Users, dto \in PmCreateDtos :
        Call(Request("paymentMethods.create", u, [dto |-> dto]))

PaymentMethodsUpdate ==
    \E u \in Users, id \in PmIdInputs, dto \in PmUpdateDtos :
        Call(Request("paymentMethods.update", u, [id |-> id, dto |-> dto]))

PaymentMethodsRemove ==
    \E u \in Users, id \in PmIdInputs :
        Call(Request("paymentMethods.remove", u, [id |-> id]))

PaymentMethodsSetDefault ==
    \E u \in Users, id \in PmIdInputs :
        Call(Request("paymentMethods.setDefault", u, [id |-> id]))

CategoriesCreate ==
    \E u \in Users, n \in CategoryNames :
        Call(Request("categories.create", u, [dto |-> [name |-> n]]))

CategoriesRemove ==
    \E u \in Users, id \in CategoryIdInputs :
        Call(Request("categories.remove", u, [id |-> id]))

CategoriesSeedDefaults ==
    Call(Request("categories.seedDefaults", NoUser, <<>>))

ExpensesCreate ==
    \E u \in Users, dto \in ExpenseCreateDtos :
        Call(Request("expenses.create", u, [dto |-> dto]))

ExpensesCreateFromReceipt ==
    \E u \in Users, a \in IngestArgs(OcrInputs) :
        Call(Request("expenses.createFromReceipt", u, a))

ExpensesCreateFromVoice ==
    \E u \in Users, a \in IngestArgs(VoiceInputs) :
        Call(Request("expenses.createFromVoice", u, a))

ExpensesUpdate ==
    \E u \in Users, id \in ExpenseIdInputs, dto \in ExpenseUpdateDtos :
        Call(Request("expenses.update", u, [id |-> id, dto |-> dto]))

ExpensesRemove ==
    \E u \in Users, id \in ExpenseIdInputs, ok \in BOOLEAN :
        Call(Request("expenses.remove", u, [id |-> id, storageOk |-> ok]))

ExpensesGetSummary ==
    \E u \in Users : Call(Request("expenses.getSummary", u, <<>>))

Next ==
    \/ PaymentMethodsCreate
    \/ PaymentMethodsUpdate
    \/ PaymentMethodsRemove
    \/ PaymentMethodsSetDefault
    \/ CategoriesCreate
    \/ CategoriesRemove
    \/ CategoriesSeedDefaults
    \/ ExpensesCreate
    \/ ExpensesCreateFromReceipt
    \/ ExpensesCreateFromVoice
    \/ ExpensesUpdate
    \/ ExpensesRemove
    \/ ExpensesGetSummary

Spec == Init /\ [][Next]_vars

(***************************************************************************)
(* TenantSpec: the requests of Spec and, with them, the update and the     *)
(* reordering of categories.                                               *)
(***************************************************************************)
CategoryUpdateDtos ==
    {n @@ o : n \in Opt("name", CategoryNames), o \in Opt("orderIndex", {1})}

\* The id lists a reorder request may carry: up to two of the ids a request
\* may name.
ReorderLists ==
    {<<>>} \cup {<<a>> : a \in CategoryIdInputs}
           \cup {<<a, b>> : a \in CategoryIdInputs, b \in CategoryIdInputs}

CategoriesUpdate ==
    \E u \in Users, id \in CategoryIdInputs, dto \in CategoryUpdateDtos :
        Call(Request("categories.update", u, [id |-> id, dto |-> dto]))

CategoriesReorder ==
    \E u \in Users, ids \in ReorderLists :
        Call(Request("categories.reorder", u, [categoryIds |-> ids]))

TenantNext ==
    \/ Next
    \/ CategoriesUpdate
    \/ CategoriesReorder

TenantSpec == Init /\ [][TenantNext]_vars

(***************************************************************************)
(* CategorySpec: the requests of the category routes alone, served one at  *)
(* a time.                                                                 *)
(***************************************************************************)
CategoryNext ==
    \/ CategoriesCreate
    \/ CategoriesUpdate
    \/ CategoriesRemove
    \/ CategoriesReorder
    \/ CategoriesSeedDefaults

CategorySpec == Init /\ [][CategoryNext]_vars

(***************************************************************************)
(* PaymentMethodSpec: the requests of the payment method routes alone,     *)
(* served one at a time.                                                   *)
(***************************************************************************)
PaymentMethodNext ==
    \/ PaymentMethodsCreate
    \/ PaymentMethodsUpdate
    \/ PaymentMethodsRemove
    \/ PaymentMethodsSetDefault

PaymentMethodSpec == Init /\ [][PaymentMethodNext]_vars

(***************************************************************************)
(* CacheFaultSpec: creates and cached reads served one at a time, some of  *)
(* them while the cache store cannot be reached.                           *)
(***************************************************************************)
\* Request req served while the cache store cannot be reached; rejects says
\* whether a failing cacheManager.get rejects.
InOutage(req, rejects) ==
    [req EXCEPT !.arg = @ @@ [cacheDown |-> TRUE, getRejects |-> rejects]]

PaymentMethodsFindAll ==
    \E u \in Users, inc \in BOOLEAN :
        Call(Request("paymentMethods.findAll", u, [includeInactive |-> inc]))

PaymentMethodsCreateInOutage ==
    \E u \in Users, dto \in PmCreateDtos :
        Call(InOutage(Request("paymentMethods.create", u, [dto |-> dto]), TRUE))

PaymentMethodsFindAllInOutage ==
    \E u \in Users, inc \in BOOLEAN, rejects \in BOOLEAN :
        Call(InOutage(Request("paymentMethods.findAll", u, [includeInactive |-> inc]),
                      rejects))

CategoriesCreateInOutage ==
    \E u \in Users, n \in CategoryNames :
        Call(InOutage(Request("categories.create", u, [dto |-> [name |-> n]]), TRUE))

ExpensesCreateInOutage ==
    \E u \in Users, dto \in ExpenseCreateDtos :
        Call(InOutage(Request("expenses.create", u, [dto |-> dto]), TRUE))

ExpensesGetSummaryInOutage ==
    \E u \in Users, rejects \in BOOLEAN :
        Call(InOutage(Request("expenses.getSummary", u, <<>>), rejects))

CacheFaultNext ==
    \/ PaymentMethodsCreate
    \/ PaymentMethodsFindAll
    \/ CategoriesCreate
    \/ ExpensesCreate
    \/ ExpensesGetSummary
    \/ PaymentMethodsCreateInOutage
    \/ PaymentMethodsFindAllInOutage
    \/ CategoriesCreateInOutage
    \/ ExpensesCreateInOutage
    \/ ExpensesGetSummaryInOutage

CacheFaultSpec == Init /\ [][CacheFaultNext]_vars

(***************************************************************************)
(* SeedSpec: the requests of the category routes, served one at a time,    *)
(* from a database that holds any part of the catalog of system categories *)
(* (none of it, all of it, or what a seeding cut short has left) and the   *)
(* payment methods of the initial database.                                *)
(***************************************************************************)
\* The system category seeding stores for entry k of the catalog.
SystemCategory(k) ==
    [id |-> k, name |-> defaultCategories[k], orderIndex |-> k - 1,
     isSystem |-> TRUE, userId |-> NoUser]

SeedInit ==
    \E present \in SUBSET DOMAIN defaultCategories :
        /\ categories = [k \in present |-> SystemCategory(k)]
        /\ paymentMethods = InitDB.paymentMethods
        /\ expenses = EmptyTable
        /\ cache = <<>>
        /\ seq = [paymentMethods |-> InitDB.seq.paymentMethods,
                  categories |-> Len(defaultCategories), expenses |-> 0]
        /\ lastCall = NoCall
        /\ calls = 0
        /\ procs = <<>>

SeedSpec == SeedInit /\ [][CategoryNext]_vars

(***************************************************************************)
(* ReconcileSpec: the manual expense requests and the creation of payment  *)
(* methods, served one at a time, so that an owner has a second method to  *)
(* move an expense to.                                                     *)
(***************************************************************************)
ReconcileNext ==
    \/ PaymentMethodsCreate
    \/ ExpensesCreate
    \/ ExpensesUpdate
    \/ ExpensesRemove

ReconcileSpec == Init /\ [][ReconcileNext]_vars

(***************************************************************************)
(* QuerySpec: dated expenses created and listed, and payment methods       *)
(* created, one request at a time.                                         *)
(***************************************************************************)
\* Days a request may name, numbered in calendar order.
DateInputs == {1, 2, 3}

ExpenseDatedDtos ==
    {d @@ [date |-> t] : d \in ExpenseCreateDtos, t \in DateInputs}

\* The orderings a query may ask for: the default one (date, descending) or
\* amount ascending.
SortInputs == {<<>>, [sortBy |-> "amount", sortOrder |-> "ASC"]}

ExpenseQueries ==
    {s @@ e @@ c @@ m @@ pg @@ l @@ o :
        s \in Opt("startDate", {1, 2}), e \in Opt("endDate", {2, 3}),
        c \in Opt("categoryId", {9}), m \in Opt("paymentMethodId", {1}),
        pg \in Opt("page", {2}), l \in Opt("limit", {2}), o \in SortInputs}

ExpensesCreateDated ==
    \E u \in Users, dto \in ExpenseDatedDtos :
        Call(Request("expenses.create", u, [dto |-> dto]))

ExpensesFindAll ==
    \E u \in Users, q \in ExpenseQueries, t \in BOOLEAN :
        Call(Request("expenses.findAll", u, [query |-> q, tiesAsc |-> t]))

QueryNext ==
    \/ PaymentMethodsCreate
    \/ ExpensesCreateDated
    \/ ExpensesFindAll

QuerySpec == Init /\ [][QueryNext]_vars

(***************************************************************************)
(* HintSpec: category suggestions and the writes of categories, served one *)
(* at a time, from a system catalog that is seeded in part or in full.     *)
(***************************************************************************)
\* The hints a suggestion may carry; a suggestion may also carry none.
HintInputs == {"", "comida", "Comida", "EDUCACION", "transporte", "otros", "viajes"}

ExpensesSuggestCategoryFromHint ==
    \E u \in Users, h \in Opt("hint", HintInputs) :
        Call(Request("expenses.suggestCategoryFromHint", u, h))

HintNext ==
    \/ CategoriesCreate
    \/ CategoriesUpdate
    \/ CategoriesReorder
    \/ CategoriesSeedDefaults
    \/ ExpensesSuggestCategoryFromHint

HintSpec == SeedInit /\ [][HintNext]_vars

(***************************************************************************)
(* StatsSpec: payment methods of a type created, with or without a credit  *)
(* limit, expenses created on them, and the statistics read, one request   *)
(* at a time.                                                              *)
(***************************************************************************)
PmTypes == {"cash", "credit_card"}

CreditLimitInputs == {0, 5}

PmTypedDtos ==
    {[name |-> n, type |-> t] @@ c :
        n \in PmNames, t \in PmTypes, c \in Opt("creditLimit", CreditLimitInputs)}

PaymentMethodsCreateTyped ==
    \E u \in Users, dto \in PmTypedDtos :
        Call(Request("paymentMethods.create", u, [dto |-> dto]))

PaymentMethodsFindAllWithStats ==
    \E u \in Users : Call(Request("paymentMethods.findAllWithStats", u, <<>>))

StatsNext ==
    \/ PaymentMethodsCreateTyped
    \/ ExpensesCreate
    \/ PaymentMethodsFindAllWithStats

StatsSpec == Init /\ [][StatsNext]_vars

(***************************************************************************)
(* ListCacheSpec: the cached list of payment methods and the requests that *)
(* write payment methods or their balances, served one at a time.          *)
(***************************************************************************)
ListCacheNext ==
    \/ PaymentMethodsFindAll
    \/ PaymentMethodsCreate
    \/ PaymentMethodsUpdate
    \/ PaymentMethodsRemove
    \/ PaymentMethodsSetDefault
    \/ ExpensesCreate

ListCacheSpec == Init /\ [][ListCacheNext]_vars

(***************************************************************************)
(* LedgerSpec: the requests of the expense ledger alone, served one at a   *)
(* time, over the payment methods and categories of the initial database.  *)
(***************************************************************************)
LedgerNext ==
    \/ ExpensesCreate
    \/ ExpensesCreateFromReceipt
    \/ ExpensesCreateFromVoice
    \/ ExpensesUpdate
    \/ ExpensesRemove
    \/ ExpensesGetSummary

LedgerSpec == Init /\ [][LedgerNext]_vars

(***************************************************************************)
(* Requests in flight together.  Node serves a request up to its next      *)
(* await and then may go on with any other request, so the steps of the    *)
(* requests in flight interleave freely.  procs lists the requests in the  *)
(* order they started; a finished request stays there with its response.   *)
(***************************************************************************)
ConcUsers == {"u1"}

InFlight == {i \in DOMAIN procs : procs[i].pc # "done"}

\* No request is in flight: every request started has completed.
Quiescent == InFlight = {}

Start(req) ==
    /\ calls < MaxCalls
    /\ procs' = Append(procs, NewProc(req))
    /\ calls' = calls + 1
    /\ UNCHANGED <<paymentMethods, categories, expenses, cache, seq, lastCall>>

\* A request in flight runs up to its next await.
ProcStep ==
    \E i \in InFlight :
        LET n == Step(procs[i], DB)
        IN /\ SetDB(n.S)
           /\ procs' = [procs EXCEPT ![i] = n.p]
           /\ UNCHANGED <<lastCall, calls>>

StartExpensesCreate ==
    \E u \in ConcUsers, dto \in ExpenseCreateDtos :
        /\ dto.amount = 1
        /\ dto.categoryId \in DOMAIN categories
        /\ dto.paymentMethodId \in DOMAIN paymentMethods
        /\ Start(Request("expenses.create", u, [dto |-> dto]))

StartExpensesUpdate ==
    \E u \in ConcUsers, id \in DOMAIN expenses, dto \in Opt("amount", AmountInputs) :
        /\ dto # <<>>
        /\ Start(Request("expenses.update", u, [id |-> id, dto |-> dto]))

StartExpensesRemove ==
    \E u \in ConcUsers, id \in DOMAIN expenses :
        Start(Request("expenses.remove", u, [id |-> id, storageOk |-> TRUE]))

StartExpensesGetSummary ==
    \E u \in ConcUsers : Start(Request("expenses.getSummary", u, <<>>))

StartPaymentMethodsCreate ==
    \E u \in ConcUsers, dto \in PmCreateDtos :
        Start(Request("paymentMethods.create", u, [dto |-> dto]))

StartPaymentMethodsUpdate ==
    \E u \in ConcUsers, id \in DOMAIN paymentMethods, dto \in Opt("isDefault", BOOLEAN) :
        /\ dto # <<>>
        /\ Start(Request("paymentMethods.update", u, [id |-> id, dto |-> dto]))

StartPaymentMethodsSetDefault ==
    \E u \in ConcUsers, id \in DOMAIN paymentMethods :
        Start(Request("paymentMethods.setDefault", u, [id |-> id]))

\* ConcLedgerSpec: expense requests and summaries of one owner, interleaved.
ConcLedgerNext ==
    \/ StartExpensesCreate
    \/ StartExpensesUpdate
    \/ StartExpensesRemove
    \/ StartExpensesGetSummary
    \/ ProcStep

ConcLedgerSpec == Init /\ [][ConcLedgerNext]_vars

\* ConcDefaultSpec: payment-method requests of one owner, interleaved.
ConcDefaultNext ==
    \/ StartPaymentMethodsCreate
    \/ StartPaymentMethodsUpdate
    \/ StartPaymentMethodsSetDefault
    \/ ProcStep

ConcDefaultSpec == Init /\ [][ConcDefaultNext]_vars

(***************************************************************************)
(* ConcSeedSpec: seeding requests in flight together, from a database that *)
(* holds any part of the catalog.                                          *)
(***************************************************************************)
StartSeedDefaults ==
    Start(Request("categories.seedDefaults", NoUser, <<>>))

ConcSeedNext ==
    \/ StartSeedDefaults
    \/ ProcStep

ConcSeedSpec == SeedInit /\ [][ConcSeedNext]_vars

(***************************************************************************)
(* ConcBalanceSpec: expense requests, whose updateBalance saves a payment  *)
(* method, interleaved with the writes of payment methods of one owner.    *)
(***************************************************************************)
ConcBalanceNext ==
    \/ StartExpensesCreate
    \/ StartExpensesRemove
    \/ StartPaymentMethodsCreate
    \/ StartPaymentMethodsUpdate
    \/ StartPaymentMethodsSetDefault
    \/ ProcStep

ConcBalanceSpec == Init /\ [][ConcBalanceNext]_vars

(***************************************************************************)
(* Properties of Spec.                                                     *)
(***************************************************************************)
OwnedPaymentMethods(u) == {i \in DOMAIN paymentMethods : paymentMethods[i].userId = u}

Defaults(u) == {i \in OwnedPaymentMethods(u) : paymentMethods[i].isDefault}

\* The live expenses on payment method m.
LiveOn(m) == {e \in DOMAIN expenses : expenses[e].paymentMethodId = m}

\* Balance of m plus the amounts of the live expenses on m: the B0 of m.
Ledger(m) == paymentMethods[m].balance + SumOver(AmountOf(DB), LiveOn(m))

LedgerOps ==
    {"expenses.create", "expenses.createFromReceipt", "expenses.createFromVoice",
     "expenses.update", "expenses.remove"}

C4_AtMostOneDefault == \A u \in Users : Cardinality(Defaults(u)) <= 1

\* setDefault has moved the default of an owner of two methods.
C4_Witness ==
    /\ lastCall.op = "paymentMethods.setDefault" /\ lastCall.result = "ok"
    /\ \E u \in Users : \E i, j \in OwnedPaymentMethods(u) :
          i < j /\ paymentMethods[j].isDefault /\ ~paymentMethods[i].isDefault

\* C9. Expense reference integrity: every live expense references a payment
\* method that exists and belongs to the expense's owner, and a category that
\* exists and is the owner's or a system category.
C9_ReferenceIntegrity ==
    \A e \in DOMAIN expenses :
        LET x == expenses[e]
        IN /\ x.paymentMethodId \in DOMAIN paymentMethods
           /\ paymentMethods[x.paymentMethodId].userId = x.userId
           /\ x.categoryId \in DOMAIN categories
           /\ \/ categories[x.categoryId].userId = x.userId
              \/ categories[x.categoryId].isSystem

\* Both owners have live expenses, one in a system category and one in a
\* category of its owner, and an update has just succeeded.
C9_Witness ==
    /\ lastCall.op = "expenses.update" /\ lastCall.result = "ok"
    /\ \E e \in DOMAIN expenses : categories[expenses[e].categoryId].isSystem
    /\ \E e \in DOMAIN expenses : ~categories[expenses[e].categoryId].isSystem
    /\ \A u \in Users : ExpensesOf(DB, u) # {}

\* C6. Referential deletion guard: CategoriesService.remove of a category,
\* and PaymentMethodsService.remove of a payment method, that a live expense
\* references, called by a user who can see the row, fails with BadRequest
\* and changes nothing.
C6_ReferentialDeletionGuard ==
    \A u \in Users :
        /\ \A c \in DOMAIN categories :
              ( /\ \E e \in DOMAIN expenses : expenses[e].categoryId = c
                /\ categories[c].userId = u \/ categories[c].isSystem )
              => LET r == Serve(Request("categories.remove", u, [id |-> c]), DB)
                 IN r.p.result = "BadRequest" /\ r.S = DB
        /\ \A m \in OwnedPaymentMethods(u) :
              LiveOn(m) # {}
              => LET r == Serve(Request("paymentMethods.remove", u, [id |-> m]), DB)
                 IN r.p.result = "BadRequest" /\ r.S = DB

\* C7. No PaymentMethodsService.update call changes the balance of an
\* existing payment method.
C7_UpdateKeepsBalance ==
    [][lastCall'.op = "paymentMethods.update"
        => \A m \in DOMAIN paymentMethods :
              /\ m \in DOMAIN paymentMethods'
              /\ paymentMethods'[m].balance = paymentMethods[m].balance]_vars

\* C8. Every expense in the ledger has amount > 0.
C8_PositiveAmounts == \A e \in DOMAIN expenses : expenses[e].amount > 0

CategoryVisible(u, c) ==
    c \in DOMAIN categories /\ (categories[c].userId = u \/ categories[c].isSystem)

PaymentMethodOwned(u, m) ==
    m \in DOMAIN paymentMethods /\ paymentMethods[m].userId = u

\* The request fails with NotFound and leaves the tables and the cache as
\* they are.
Rejected(req) ==
    LET r == Serve(req, DB) IN r.p.result = "NotFound" /\ r.S = DB

\* C10. An expense create (manual, or from a receipt or a recording the
\* adapter could read) or update that names a category its caller cannot see
\* or a payment method its caller does not own fails with NotFound and
\* changes nothing: no row, no balance, no cache entry.
C10_ForeignReferencesRejected ==
    \A u \in Users :
        /\ \A dto \in ExpenseCreateDtos :
              (~CategoryVisible(u, dto.categoryId)
                 \/ ~PaymentMethodOwned(u, dto.paymentMethodId))
              => Rejected(Request("expenses.create", u, [dto |-> dto]))
        /\ \A a \in IngestArgs(OcrInputs) :
              ( /\ OcrService_processReceipt(a.deployment, a.upload).ok
                /\ ~CategoryVisible(u, a.categoryId)
                     \/ ~PaymentMethodOwned(u, a.paymentMethodId) )
              => Rejected(Request("expenses.createFromReceipt", u, a))
        /\ \A a \in IngestArgs(VoiceInputs) :
              ( /\ VoiceService_processVoice(a.deployment, a.upload).ok
                /\ ~CategoryVisible(u, a.categoryId)
                     \/ ~PaymentMethodOwned(u, a.paymentMethodId) )
              => Rejected(Request("expenses.createFromVoice", u, a))
        /\ \A id \in ExpenseIdInputs, dto \in ExpenseUpdateDtos :
              ( \/ Has(dto, "categoryId") /\ ~CategoryVisible(u, dto.categoryId)
                \/ Has(dto, "paymentMethodId")
                     /\ ~PaymentMethodOwned(u, dto.paymentMethodId) )
              => Rejected(Request("expenses.update", u, [id |-> id, dto |-> dto]))

\* A manual create was refused with NotFound (create raises it only for the
\* category or the payment method) while the caller's summary was cached,
\* and the entry is still there.
C10_Witness ==
    /\ lastCall.op = "expenses.create" /\ lastCall.result = "NotFound"
    /\ SummaryKey(lastCall.userId) \in DOMAIN cache

\* C20. Percentage guard: when the amounts of an owner's expenses sum to 0,
\* every byCategory and byPaymentMethod entry of the summary getSummary
\* returns has percentage 0, also when the owner has live expenses, all of
\* amount 0.
C20_PercentageGuard ==
    \A u \in Users :
        Expenses_totalQuery(DB, u).total = 0
        => LET v == Serve(Request("expenses.getSummary", u, <<>>), DB).p.value
           IN /\ \A c \in DOMAIN v.byCategory : IsZero(v.byCategory[c].percentage)
              /\ \A m \in DOMAIN v.byPaymentMethod :
                    IsZero(v.byPaymentMethod[m].percentage)

(***************************************************************************)
(* Properties of the interleaved specifications.                           *)
(***************************************************************************)
\* The balance payment method m of the initial database would have with no
\* expense on it.
B0(m) ==
    InitDB.paymentMethods[m].balance
      + SumOver(AmountOf(InitDB),
                {e \in DOMAIN InitDB.expenses : InitDB.expenses[e].paymentMethodId = m})

\* No expense is named by two of the requests started.
DistinctTargets ==
    \A i, j \in DOMAIN procs :
        (i # j /\ Has(procs[i].arg, "id") /\ Has(procs[j].arg, "id"))
        => procs[i].arg.id # procs[j].arg.id

\* C2. No lost balance update: once the expense create, update and remove
\* requests started, each on an expense of its own, have all completed, the
\* balance of every payment method is B0 minus the amounts of the live
\* expenses on it.
C2_NoLostBalanceUpdate ==
    (Quiescent /\ DistinctTargets)
    => \A m \in DOMAIN InitDB.paymentMethods :
          paymentMethods[m].balance = B0(m) - SumOver(AmountOf(DB), LiveOn(m))

\* C3. At most one default under concurrent callers: once every request
\* started has completed, every owner has at most one default method.
C3_AtMostOneDefaultConcurrent ==
    Quiescent => \A u \in Users : Cardinality(Defaults(u)) <= 1

\* The summary of owner u computed from the ledger as it is.
FreshSummary(u) ==
    ExpenseSummary(Expenses_totalQuery(DB, u), Expenses_byCategoryQuery(DB, u),
                   Expenses_byPaymentMethodQuery(DB, u))

\* C5. Summary cache invalidation: once every request started has
\* completed, a getSummary served next returns the summary of the ledger as
\* it is, never one computed before a completed mutation.
C5_SummaryFresh ==
    Quiescent
    => \A u \in Users :
          Serve(Request("expenses.getSummary", u, <<>>), DB).p.value = FreshSummary(u)

(***************************************************************************)
(* Properties of TenantSpec.                                               *)
(***************************************************************************)
\* The rows of owner v: v's payment methods, v's expenses and v's
\* categories, none of which is a system category.
OwnedRows(v) ==
    [paymentMethods |-> {<<i, paymentMethods[i]>> : i \in OwnedPaymentMethods(v)},
     expenses |-> {<<i, expenses[i]>> : i \in ExpensesOf(DB, v)},
     categories |-> {<<i, categories[i]>> :
                        i \in {j \in DOMAIN categories :
                                  ~categories[j].isSystem /\ categories[j].userId = v}}]

\* The dtos of ds that change a single field.
OneField(ds) == {d \in ds : Cardinality(DOMAIN d) = 1}

\* The requests of u that name a row of another owner by its id; an update
\* among them changes a single field.
ForeignRequests(u) ==
    LET pms == {i \in DOMAIN paymentMethods : paymentMethods[i].userId # u}
        exps == {i \in DOMAIN expenses : expenses[i].userId # u}
        cats == {i \in DOMAIN categories :
                    ~categories[i].isSystem /\ categories[i].userId # u}
    IN {Request("paymentMethods.update", u, [id |-> i, dto |-> d]) :
            i \in pms, d \in OneField(PmUpdateDtos)}
       \cup {Request(op, u, [id |-> i]) :
                op \in {"paymentMethods.remove", "paymentMethods.setDefault"}, i \in pms}
       \cup {Request("expenses.update", u, [id |-> i, dto |-> d]) :
                i \in exps, d \in OneField(ExpenseUpdateDtos)}
       \cup {Request("expenses.remove", u, [id |-> i, storageOk |-> TRUE]) : i \in exps}
       \cup {Request("categories.update", u, [id |-> i, dto |-> d]) :
                i \in cats, d \in OneField(CategoryUpdateDtos)}
       \cup {Request("categories.remove", u, [id |-> i]) : i \in cats}

\* The findOne of each service finds no row of another owner for u.
ForeignGetFails(u) ==
    /\ \A i \in DOMAIN paymentMethods :
          paymentMethods[i].userId # u => PaymentMethods_findOne(DB, u, i) = {}
    /\ \A i \in DOMAIN expenses :
          expenses[i].userId # u => Expenses_findOne(DB, u, i) = {}
    /\ \A i \in DOMAIN categories :
          (~categories[i].isSystem /\ categories[i].userId # u)
          => Categories_findOne(DB, u, i) = {}

\* C11. Owner isolation: no request changes the payment methods, the
\* expenses or the non-system categories of an owner other than its caller,
\* and a get, update, remove or setDefault that names a row of another owner
\* by its id fails with NotFound and changes nothing.
C11_OwnerIsolation ==
    /\ [][\A v \in Users : lastCall'.userId # v => OwnedRows(v)' = OwnedRows(v)]_vars
    /\ [](\A u \in Users :
             ForeignGetFails(u) /\ \A req \in ForeignRequests(u) : Rejected(req))

\* u2 has just removed an expense of its own while u1 has an expense, a
\* payment method and a category.
C11_Witness ==
    /\ lastCall.userId = "u2" /\ lastCall.op = "expenses.remove" /\ lastCall.result = "ok"
    /\ ExpensesOf(DB, "u1") # {} /\ OwnedPaymentMethods("u1") # {}
    /\ OwnedRows("u1").categories # {}

(***************************************************************************)
(* Properties of CategorySpec.                                             *)
(***************************************************************************)
\* The update and remove requests of u on category id.
CategoryWrites(u, id) ==
    {Request("categories.update", u, [id |-> id, dto |-> d]) : d \in CategoryUpdateDtos}
    \cup {Request("categories.remove", u, [id |-> id])}

\* C12. A category update or remove fails with BadRequest and leaves the
\* categories as they are when its target is a system category or a
\* non-system category of an owner other than the caller.
C12_ProtectedCategories ==
    \A u \in Users, id \in DOMAIN categories :
        (categories[id].isSystem \/ categories[id].userId # u)
        => \A req \in CategoryWrites(u, id) :
              LET r == Serve(req, DB)
              IN r.p.result = "BadRequest" /\ r.S.categories = categories

\* The non-system categories of owner u.
OwnedCategories(u) ==
    {i \in DOMAIN categories : ~categories[i].isSystem /\ categories[i].userId = u}

\* The request fails with Conflict and leaves the tables and the cache as
\* they are.
Conflicts(req) ==
    LET r == Serve(req, DB) IN r.p.result = "Conflict" /\ r.S = DB

\* C15. Category name uniqueness: no two non-system categories of an owner
\* have the same name, and a create, or a rename by update, whose name is
\* that of another category of the caller fails with Conflict and changes
\* nothing.
C15_CategoryNameUnique ==
    \A u \in Users :
        /\ \A i, j \in OwnedCategories(u) :
              i # j => categories[i].name # categories[j].name
        /\ \A n \in CategoryNames :
              (\E j \in OwnedCategories(u) : categories[j].name = n)
              => /\ Conflicts(Request("categories.create", u, [dto |-> [name |-> n]]))
                 /\ \A i \in OwnedCategories(u), d \in CategoryUpdateDtos :
                       ( /\ Has(d, "name") /\ d.name = n
                         /\ \E j \in OwnedCategories(u) \ {i} : categories[j].name = n )
                       => Conflicts(Request("categories.update", u, [id |-> i, dto |-> d]))

\* A rename has just been refused with Conflict; its caller owns two
\* categories.
C15_Witness ==
    /\ lastCall.op = "categories.update" /\ lastCall.result = "Conflict"
    /\ Cardinality(OwnedCategories(lastCall.userId)) = 2

\* The reorder lists of stored categories, no id twice.
StoredReorderLists ==
    {ids \in ReorderLists :
        /\ \A k \in DOMAIN ids : ids[k] \in DOMAIN categories
        /\ \A k, l \in DOMAIN ids : k # l => ids[k] # ids[l]}

\* C17. reorder sets the orderIndex of each listed category of the caller to
\* its position in the list, and skips every listed category that is not the
\* caller's (a system category, or another owner's category): the call
\* succeeds and leaves the skipped category as it is.
C17_ReorderSkipsForeign ==
    \A u \in Users, ids \in StoredReorderLists :
        LET r == Serve(Request("categories.reorder", u, [categoryIds |-> ids]), DB)
        IN /\ r.p.result = "ok"
           /\ \A k \in DOMAIN ids :
                 IF ids[k] \in OwnedCategories(u)
                 THEN r.S.categories[ids[k]] =
                          [categories[ids[k]] EXCEPT !.orderIndex = k - 1]
                 ELSE r.S.categories[ids[k]] = categories[ids[k]]

(***************************************************************************)
(* Properties of SeedSpec.                                                 *)
(***************************************************************************)
\* The system categories named n.
SystemNamed(n) == {i \in DOMAIN categories : categories[i].isSystem /\ categories[i].name = n}

\* There is exactly one system category for each name of the catalog.
Seeded == \A k \in DOMAIN defaultCategories : Cardinality(SystemNamed(defaultCategories[k])) = 1

\* C18. Seeding is idempotent: a call of createDefaultCategories served
\* alone, from any database, succeeds and leaves exactly one system category
\* for each of the 8 names of the catalog, and a call served when that is
\* already so inserts, modifies and removes nothing.
C18_SeedingIdempotent ==
    [][lastCall'.op = "categories.seedDefaults"
       => /\ lastCall'.result = "ok"
          /\ Seeded'
          /\ Seeded => /\ categories' = categories
                       /\ paymentMethods' = paymentMethods
                       /\ expenses' = expenses]_vars

\* A seeding has completed the catalog (it inserted a system category) in a
\* database where a user has a category that has the name of a system
\* category.
C18_Witness ==
    /\ lastCall.op = "categories.seedDefaults" /\ lastCall.result = "ok"
    /\ Seeded
    /\ \E i \in DOMAIN categories : categories[i].isSystem /\ i > Len(defaultCategories)
    /\ \E u \in Users : \E i \in OwnedCategories(u) : SystemNamed(categories[i].name) # {}

(***************************************************************************)
(* Properties of PaymentMethodSpec.                                        *)
(***************************************************************************)
\* C13. setDefault postcondition: when setDefault of an owner completes on
\* method id, id is the owner's default and no other method of the owner is;
\* no method is added or removed, every column other than isDefault of every
\* method is as before, and the methods of other owners are as before.
C13_SetDefaultPostcondition ==
    [][(lastCall'.op = "paymentMethods.setDefault" /\ lastCall'.result = "ok")
       => LET id == lastCall'.value.id
              u == lastCall'.userId
          IN /\ DOMAIN paymentMethods' = DOMAIN paymentMethods
             /\ paymentMethods'[id].userId = u /\ paymentMethods'[id].isDefault
             /\ \A m \in DOMAIN paymentMethods :
                   /\ (m # id /\ paymentMethods[m].userId = u)
                      => ~paymentMethods'[m].isDefault
                   /\ paymentMethods[m].userId # u
                      => paymentMethods'[m] = paymentMethods[m]
                   /\ [paymentMethods'[m] EXCEPT !.isDefault = paymentMethods[m].isDefault]
                        = paymentMethods[m]]_vars

\* setDefault has completed on the second method of u1, whose first method
\* was the default before, while u2 owns a method too.
C13_Witness ==
    /\ lastCall.op = "paymentMethods.setDefault" /\ lastCall.result = "ok"
    /\ lastCall.userId = "u1" /\ lastCall.value.id # 1
    /\ ~paymentMethods[1].isDefault
    /\ OwnedPaymentMethods("u2") # {}

\* The create and update requests of u that ask for the name of another
\* method of u and carry isDefault = true.
DuplicateDefaultRequests(u) ==
    LET taken(n, i) == \E j \in OwnedPaymentMethods(u) \ {i} : paymentMethods[j].name = n
    IN {Request("paymentMethods.create", u, [dto |-> d]) :
            d \in {x \in PmCreateDtos : Has(x, "isDefault") /\ x.isDefault /\ taken(x.name, 0)}}
       \cup {Request("paymentMethods.update", u, [id |-> i, dto |-> d]) :
                i \in OwnedPaymentMethods(u),
                d \in {x \in PmUpdateDtos : Has(x, "isDefault") /\ x.isDefault
                                            /\ Has(x, "name")}}

\* C16. A payment method create or update that asks for the name of another
\* method of its caller fails with Conflict and changes nothing, also when it
\* carries isDefault = true: no method is inserted or modified and the
\* caller's default stays the default.
C16_ConflictLeavesStateUnchanged ==
    \A u \in Users :
        /\ \A d \in PmCreateDtos :
              (\E j \in OwnedPaymentMethods(u) : paymentMethods[j].name = d.name)
              => Conflicts(Request("paymentMethods.create", u, [dto |-> d]))
        /\ \A i \in OwnedPaymentMethods(u), d \in PmUpdateDtos :
              ( /\ Has(d, "name")
                /\ \E j \in OwnedPaymentMethods(u) \ {i} : paymentMethods[j].name = d.name )
              => Conflicts(Request("paymentMethods.update", u, [id |-> i, dto |-> d]))

\* An update has just been refused with Conflict; its caller has a default
\* method and a second method, and a create and an update of the caller that
\* carry isDefault = true and a name already taken are refused with Conflict.
C16_Witness ==
    /\ lastCall.op = "paymentMethods.update" /\ lastCall.result = "Conflict"
    /\ Defaults(lastCall.userId) # {}
    /\ \E r \in DuplicateDefaultRequests(lastCall.userId) :
          r.op = "paymentMethods.create" /\ Serve(r, DB).p.result = "Conflict"
    /\ \E r \in DuplicateDefaultRequests(lastCall.userId) :
          r.op = "paymentMethods.update" /\ Serve(r, DB).p.result = "Conflict"

(***************************************************************************)
(* Properties of CacheFaultSpec.                                           *)
(***************************************************************************)
\* The tables of shared state S.
Tables(S) ==
    [paymentMethods |-> S.paymentMethods, categories |-> S.categories,
     expenses |-> S.expenses]

\* The writes u may request.
WriteRequests(u) ==
    {Request("paymentMethods.create", u, [dto |-> d]) : d \in PmCreateDtos}
    \cup {Request("paymentMethods.update", u, [id |-> i, dto |-> d]) :
             i \in PmIdInputs, d \in OneField(PmUpdateDtos)}
    \cup {Request("paymentMethods.setDefault", u, [id |-> i]) : i \in PmIdInputs}
    \cup {Request("categories.create", u, [dto |-> [name |-> n]]) : n \in CategoryNames}
    \cup {Request("categories.update", u, [id |-> i, dto |-> d]) :
             i \in CategoryIdInputs, d \in CategoryUpdateDtos}
    \cup {Request("expenses.create", u, [dto |-> d]) : d \in ExpenseCreateDtos}
    \cup {Request("expenses.update", u, [id |-> i, dto |-> d]) :
             i \in ExpenseIdInputs, d \in OneField(ExpenseUpdateDtos)}
    \cup {Request("expenses.remove", u, [id |-> i, storageOk |-> TRUE]) :
             i \in ExpenseIdInputs}

\* C14. Cache operations are non-fatal: a write that succeeds with the cache
\* store in reach succeeds as well, with the same rows written, while the
\* store cannot be reached; and getSummary and findAll served while the
\* store cannot be reached succeed with the answer of the database.
C14_CacheNonFatal ==
    \A u \in Users :
        /\ \A req \in WriteRequests(u) :
              LET up == Serve(req, DB)
                  down == Serve(InOutage(req, TRUE), DB)
              IN up.p.result = "ok"
                 => down.p.result = "ok" /\ Tables(down.S) = Tables(up.S)
        /\ \A rejects \in BOOLEAN :
              LET r == Serve(InOutage(Request("expenses.getSummary", u, <<>>), rejects), DB)
              IN r.p.result = "ok" /\ r.p.value = FreshSummary(u)
        /\ \A rejects \in BOOLEAN, inc \in BOOLEAN :
              LET r == Serve(InOutage(Request("paymentMethods.findAll", u,
                                              [includeInactive |-> inc]), rejects), DB)
              IN r.p.result = "ok" /\ r.p.value = PaymentMethods_find(DB, u, inc)

(***************************************************************************)
(* Properties of ConcSeedSpec.                                             *)
(***************************************************************************)
\* C19. Seeding is safe under concurrent callers: however the seeding calls
\* in flight interleave, there is at most one system category for each name
\* of the catalog.
C19_AtMostOneSystemCategoryPerName ==
    \A k \in DOMAIN defaultCategories : Cardinality(SystemNamed(defaultCategories[k])) <= 1

(***************************************************************************)
(* Properties of LedgerSpec: a remove whose storage delete fails.          *)
(***************************************************************************)
\* The expenses of u that have a receipt or an audio blob.
WithBlob(u) ==
    {i \in ExpensesOf(DB, u) :
        Has(expenses[i], "receiptS3Key") \/ Has(expenses[i], "voiceAudioS3Key")}

\* The outcome of remove of expense i by u while the storage delete fails.
FailedRemove(u, i) ==
    Serve(Request("expenses.remove", u, [id |-> i, storageOk |-> FALSE]), DB)

\* C21. A storage delete that fails is fatal for the remove: the remove of an
\* expense with a receipt or audio blob fails with the storage error, the
\* expense rows are as before and the cache, the owner's summary entry with
\* it, is as before.
C21_StorageFailureFatal ==
    \A u \in Users : \A i \in WithBlob(u) :
        LET r == FailedRemove(u, i)
        IN /\ r.p.result = "StorageError"
           /\ r.S.expenses = expenses
           /\ r.S.cache = cache

\* A remove has just failed with the storage error and the caller's expense
\* with its blob is still in the ledger.
C21_Witness ==
    /\ lastCall.op = "expenses.remove" /\ lastCall.result = "StorageError"
    /\ WithBlob(lastCall.userId) # {}

\* C23. A failed remove leaves balances unchanged: when the remove of an
\* expense with a receipt or audio blob fails because the storage delete
\* fails, every payment method has the balance it had before the call.
C23_FailedRemoveKeepsBalance ==
    \A u \in Users : \A i \in WithBlob(u) :
        LET r == FailedRemove(u, i)
        IN r.p.result # "ok" => r.S.paymentMethods = paymentMethods

(***************************************************************************)
(* Properties of ReconcileSpec.                                            *)
(***************************************************************************)
\* The steps of update that are the findOne and the save of updateBalance.
BalanceSteps == {"creditFind", "creditSave", "debitFind", "debitSave"}

\* C22. update reconciles balances only when needed: a completed update
\* that changes neither the amount nor the payment method of the expense
\* reads and writes no payment method; one that changes either credits the
\* old amount to the old method and debits the new amount from the new
\* method, and leaves every other method as it is.
C22_UpdateReconciles ==
    \A u \in Users : \A i \in ExpensesOf(DB, u), d \in ExpenseUpdateDtos :
        LET req == Request("expenses.update", u, [id |-> i, dto |-> d])
            r == Serve(req, DB)
            a == expenses[i].amount
            A == expenses[i].paymentMethodId
            b == IF Has(d, "amount") THEN d.amount ELSE a
            B == IF Has(d, "paymentMethodId") THEN d.paymentMethodId ELSE A
            credited == [paymentMethods EXCEPT ![A].balance = @ + a]
        IN r.p.result = "ok"
           => IF a = b /\ A = B
              THEN /\ Visited(NewProc(req), DB) \cap BalanceSteps = {}
                   /\ r.S.paymentMethods = paymentMethods
              ELSE r.S.paymentMethods = [credited EXCEPT ![B].balance = @ - b]

\* The expense of the initial database has just been moved to another
\* method of its owner with another amount, and its old method has the old
\* amount back.
C22_Witness ==
    /\ lastCall.op = "expenses.update" /\ lastCall.result = "ok"
    /\ lastCall.value.id = 1
    /\ lastCall.value.paymentMethodId # InitDB.expenses[1].paymentMethodId
    /\ lastCall.value.amount # InitDB.expenses[1].amount
    /\ paymentMethods[1].balance
         = InitDB.paymentMethods[1].balance + InitDB.expenses[1].amount

(***************************************************************************)
(* Properties of ConcLedgerSpec: two requests on one expense.              *)
(***************************************************************************)
\* The requests started are two, each an update or a remove, both of the
\* same expense.
SameTarget ==
    /\ Len(procs) = 2
    /\ \A i \in DOMAIN procs : procs[i].op \in {"expenses.update", "expenses.remove"}
    /\ procs[1].arg.id = procs[2].arg.id

\* C24. An expense's amount is reversed at most once: once two requests on
\* the same expense (remove and remove, remove and update, update and
\* update), interleaved in any way, have both completed, the balance of
\* every payment method is B0 minus the amounts of the live expenses on it.
C24_ReversedAtMostOnce ==
    (Quiescent /\ SameTarget)
    => \A m \in DOMAIN InitDB.paymentMethods :
          paymentMethods[m].balance = B0(m) - SumOver(AmountOf(DB), LiveOn(m))

(***************************************************************************)
(* Properties of ConcBalanceSpec.                                          *)
(***************************************************************************)
PaymentMethodWrites ==
    {"paymentMethods.create", "paymentMethods.update", "paymentMethods.setDefault"}

\* The requests started are one write of payment methods and, for the rest,
\* expense requests.
OneMethodWrite ==
    /\ Cardinality({i \in DOMAIN procs : procs[i].op \in PaymentMethodWrites}) = 1
    /\ \A i \in DOMAIN procs : procs[i].op \in PaymentMethodWrites \cup LedgerOps

\* C25. updateBalance changes only the balance: once a write of payment
\* methods (create, update or setDefault) and the expense requests it
\* interleaved with have all completed, every column other than the balance
\* of every payment method is what the write of payment methods alone makes
\* of it; a default flag it cleared stays cleared.
C25_UpdateBalanceOnlyBalance ==
    (Quiescent /\ OneMethodWrite)
    => LET w == CHOOSE i \in DOMAIN procs : procs[i].op \in PaymentMethodWrites
           alone == Serve(Request(procs[w].op, procs[w].userId, procs[w].arg),
                          InitDB).S.paymentMethods
       IN /\ DOMAIN paymentMethods = DOMAIN alone
          /\ \A m \in DOMAIN alone :
                [paymentMethods[m] EXCEPT !.balance = alone[m].balance] = alone[m]

(***************************************************************************)
(* Properties of ListCacheSpec.                                            *)
(***************************************************************************)
\* C26. The cached list of payment methods is consistent with completed
\* writes: whatever requests have completed, a findAll of an owner served
\* next, with either flag, returns the owner's stored methods as they are.
C26_ListCacheConsistent ==
    \A u \in Users, inc \in BOOLEAN :
        Serve(Request("paymentMethods.findAll", u, [includeInactive |-> inc]), DB).p.value
          = PaymentMethods_find(DB, u, inc)

(***************************************************************************)
(* Properties of PaymentMethodSpec: removing a payment method.             *)
(***************************************************************************)
\* The payment methods of owner u that no expense refers to.
Unreferenced(u) ==
    {i \in OwnedPaymentMethods(u) :
        \A e \in DOMAIN expenses : expenses[e].paymentMethodId # i}

\* C27. remove(owner, id) of an owned payment method that no expense refers
\* to succeeds: the method is no longer stored and neither list-cache entry
\* of the owner is left.
C27_RemoveUnreferencedSucceeds ==
    \A u \in Users : \A i \in Unreferenced(u) :
        LET r == Serve(Request("paymentMethods.remove", u, [id |-> i]), DB)
        IN /\ r.p.result = "ok"
           /\ i \notin DOMAIN r.S.paymentMethods
           /\ \A inc \in BOOLEAN :
                 <<"payment-methods", u, inc>> \notin DOMAIN r.S.cache

(***************************************************************************)
(* Properties of QuerySpec.                                                *)
(***************************************************************************)
\* The expenses of owner u that satisfy every filter query q supplies.
Matching(u, q) ==
    {i \in DOMAIN expenses :
        /\ expenses[i].userId = u
        /\ Has(q, "startDate") => q.startDate <= expenses[i].date
        /\ Has(q, "endDate") => expenses[i].date <= q.endDate
        /\ Has(q, "categoryId") => expenses[i].categoryId = q.categoryId
        /\ Has(q, "paymentMethodId") => expenses[i].paymentMethodId = q.paymentMethodId}

\* The number of rows left on a page of limit rows after skip rows of total.
PageLength(total, skip, limit) ==
    IF total <= skip THEN 0 ELSE IF total - skip < limit THEN total - skip ELSE limit

\* C28. findAll(owner, query) returns only the owner's expenses that satisfy
\* every filter the query supplies, a start date or an end date supplied
\* alone included; meta.total is the number of all such expenses, the page
\* holds the limit expenses from offset (page - 1) * limit on (fewer at the
\* end), and meta.totalPages is total / limit rounded up.
C28_FindAllFiltersAndPages ==
    \A u \in Users, q \in ExpenseQueries, t \in BOOLEAN :
        LET r == Serve(Request("expenses.findAll", u, [query |-> q, tiesAsc |-> t]),
                       DB).p.value
            page == IF Has(q, "page") THEN q.page ELSE 1
            limit == IF Has(q, "limit") THEN q.limit ELSE 20
        IN /\ \A k \in DOMAIN r.data : r.data[k].id \in Matching(u, q)
           /\ r.meta.total = Cardinality(Matching(u, q))
           /\ Len(r.data) = PageLength(r.meta.total, (page - 1) * limit, limit)
           /\ r.meta.totalPages = Ceil(r.meta.total, limit)

(***************************************************************************)
(* Properties of HintSpec.                                                 *)
(***************************************************************************)
\* The stored categories owner u can see.
Visible(u) ==
    {i \in DOMAIN categories : categories[i].userId = u \/ categories[i].isSystem}

VisibleNamed(u, name) == {i \in Visible(u) : categories[i].name = name}

\* The keywords of the table, in any mix of cases, and the name each maps to.
Keyword(h) == h \in {"comida", "Comida", "EDUCACION", "transporte"}

MappedName(h) ==
    CASE h \in {"comida", "Comida"} -> "Comida"
      [] h = "EDUCACION" -> "Educacion"
      [] h = "transporte" -> "Transporte"

\* The suggestion for owner u served next, with hint h (<<>>: no hint).
Suggested(u, h) ==
    Serve(Request("expenses.suggestCategoryFromHint", u, h), DB).p.value

\* C29. The fallback order of a suggestion, whatever requests have completed
\* before it: for a hint that is a keyword (in any mix of cases) whose
\* category owner u can see, the id of such a category; otherwise the id of
\* a category named 'Otros' that u can see, if there is one; otherwise the
\* id of the first category in list order; and always the id of a category
\* u can see when u can see any.
C29_SuggestionFallbackOrder ==
    \A u \in Users, h \in Opt("hint", HintInputs) :
        LET id == Suggested(u, h)
            mapped == IF Has(h, "hint") /\ Keyword(h.hint)
                      THEN VisibleNamed(u, MappedName(h.hint)) ELSE {}
        IN IF mapped # {} THEN id # <<>> /\ id[1] \in mapped
           ELSE IF VisibleNamed(u, "Otros") # {}
           THEN id # <<>> /\ id[1] \in VisibleNamed(u, "Otros")
           ELSE IF Visible(u) # {}
           THEN id # <<>> /\ id[1] \in Visible(u)
                /\ \A j \in Visible(u) : ~Categories_before(categories[j], categories[id[1]])
           ELSE id = <<>>

(***************************************************************************)
(* Properties of StatsSpec.                                                *)
(***************************************************************************)
\* The statistics of owner u served next.
Stats(u) == Serve(Request("paymentMethods.findAllWithStats", u, <<>>), DB).p.value

\* The expenses that refer to payment method m.
Referencing(m) == {e \in DOMAIN expenses : expenses[e].paymentMethodId = m}

\* C30. findAllWithStats(owner) has one entry for each payment method of the
\* owner, with totalExpenses the number of expenses that refer to the method
\* and totalAmount the sum of their amounts (0 when there is none);
\* availableCredit is creditLimit - totalAmount when the method is a credit
\* card with a credit limit, a limit of 0 included, and null otherwise.
C30_StatsAndAvailableCredit ==
    \A u \in Users :
        LET r == Stats(u)
        IN /\ {r[k].entity.id : k \in DOMAIN r} = OwnedPaymentMethods(u)
           /\ Len(r) = Cardinality(OwnedPaymentMethods(u))
           /\ \A k \in DOMAIN r :
                 LET pm == paymentMethods[r[k].entity.id]
                     total == SumOver([e \in DOMAIN expenses |-> expenses[e].amount],
                                      Referencing(pm.id))
                 IN /\ r[k].totalExpenses = Cardinality(Referencing(pm.id))
                    /\ r[k].totalAmount = total
                    /\ IF pm.type = "credit_card" /\ Has(pm, "creditLimit")
                       THEN r[k].availableCredit = JsNumber(pm.creditLimit - total)
                       ELSE r[k].availableCredit = JsNull

\* A credit card with a credit limit of 0 that an expense refers to has its
\* statistics read.
C30_Witness ==
    \E u \in Users : \E k \in DOMAIN Stats(u) :
        LET x == Stats(u)[k]
        IN /\ x.entity.type = "credit_card"
           /\ Has(x.entity, "creditLimit") /\ x.entity.creditLimit = 0
           /\ x.totalExpenses >= 1
           /\ x.availableCredit = JsNumber(0 - x.totalAmount)

=============================================================================
